---- MODULE Spec2Model ----
(***************************************************************************)
(* The job pipeline of viral_clips (src/viral_clips/tasks.py): one         *)
(* VideoJob driven through the Celery tasks process_video_job ->           *)
(* preprocess_media -> transcribe_video -> analyze_transcript ->           *)
(* clip_segments, the per-segment tasks process_clip and                   *)
(* check_render_status, and cleanup_job_files.                             *)
(*                                                                         *)
(* Jobs share no state, so one job is modelled.  The database rows are     *)
(* job, segments and clips.  A task holds the model instances it fetched   *)
(* as local copies, and Model.save() writes every field of the local copy  *)
(* back to the row.  A task is split into steps at its slow collaborator   *)
(* calls and at the iterations of its loops; the database accesses between *)
(* two such points form one step.  Removing a task's own temporary files   *)
(* (the finally blocks) is taken to succeed.                               *)
(*                                                                         *)
(* The collaborators (S3, ffmpeg, ElevenLabs, the LLM, Shotstack) either   *)
(* return or raise.  The broker delivers the queued tasks in any order to  *)
(* up to MaxWorkers workers and may deliver a task more than once.         *)
(***************************************************************************)
EXTENDS Integers, Sequences, FiniteSets, Bags, TLC

\* ------------------------------------------------------------ bounds
MaxWorkers == 2      \* tasks executing at the same time
MaxExtra == 2        \* repeated triggers and duplicate deliveries, together
MaxRepeat == 1       \* duplicate deliveries of clip_segments in the whole flow
MaxBatch == 2        \* segments the analysis returns at most
MaxQueue == 3        \* tasks waiting in the queue
MaxRenders == 3      \* render requests the rendering service accepts
MaxParts == 2        \* part numbers a caller uploads or submits
MaxAge == 1          \* days between the oldest timestamp and the first cleanup
MaxTicks == 1        \* days the clock advances while cleanups run
MaxWait == 8         \* max_wait of wait_for_render, in seconds
MaxInterval == 3     \* check_interval of wait_for_render, in seconds
MaxRetention == 1    \* retention_days a caller of the cleanup endpoint asks for
MaxHandlers == 2     \* TUS requests handled at the same time
MaxLength == 3       \* Upload-Length of the TUS upload, in blocks of 50 MiB
MaxData == 2         \* body of a TUS request, in blocks of 50 MiB
MaxPatches == 2      \* PATCH requests the TUS upload receives

\* ------------------------------------------------------------ constants
ClipMaxRetries == 3      \* process_clip: max_retries=3
PollMaxRetries == 10     \* check_render_status: max_retries=10

\* Sizes are counted in blocks of Unit bytes, which keeps 5 GiB below 2^31.
Unit == 128
MiB == (1024 * 1024) \div Unit
MaxFileSize == 5 * 1024 * MiB    \* initiate_multipart_upload: max_size, 5 GiB
MinPartSize == 5 * MiB           \* initiate_multipart_upload: 5 MiB

\* The sizes of a TUS upload are counted in blocks of 50 MiB.
TusPartSize == 2         \* transfer_to_s3: 100 MiB parts, multipart above 100 MiB
TusMaxSize == 102        \* TUS_MAX_SIZE: the whole blocks within 5 GiB

VARIABLES
    job,        \* the VideoJob row
    segments,   \* the TranscriptSegment rows of the job: segments[id] = segment_order
    clips,      \* the ClippedVideo rows: clips[id] = [seg, status, rid, err]
    renders,    \* the rendering service: renders[handle] = status it reports
    store,      \* the object store: which of the job's intermediate files exist
    queue,      \* the Celery queue, a bag of task messages
    running,    \* the task executions in progress, a bag of their local states
    triggers,   \* how many times process_video_job was dispatched for the job
    redelivered,\* how many duplicate deliveries happened
    held,       \* history: how far the job's statuses have followed StatusOrder
    done,       \* history: done[k] = how many executions of the stage k succeeded
    sent,       \* history: sent[k] = how many times a task called k.delay(...)
    configured, \* settings: S3Service.is_s3_configured()
    client,     \* a MultipartUploader: the file_size and part_size it was made with
    uploads,    \* the multipart sessions of the object store, by upload id
    resp,       \* the last response of an upload or cleanup endpoint
    bucket,     \* the objects of the bucket: bucket[key] = [last_modified, size]
    rows,       \* the ClippedVideo rows the cleanup reads: created_at, status, URLs
    now,        \* the clock, in days
    cutoff_date,\* bulk_cleanup_cloudcube: the cutoff the last run computed
    result,     \* bulk_cleanup_cloudcube: what the last run returned
    wait,       \* ShotstackService.wait_for_render: its arguments and locals
    uploader,   \* test_multipart_upload.py: the MultipartUploader and main
    tus         \* tus_views.py: one TUS upload, its handlers and what they stored

\* The state of the upload endpoints.
coordinator == <<client, uploads, resp>>

\* The state of the storage cleanup.
lifecycle == <<bucket, rows, now, cutoff_date, result>>

\* The state of the calls that run outside the pipeline.
services == <<wait, uploader, tus>>

vars == <<job, segments, clips, renders, store, queue, running, triggers,
          redelivered, held, done, sent, configured, coordinator, lifecycle, services>>

\* ------------------------------------------------------------ data
StatusOrder == <<"pending", "preprocessing", "transcribing", "analyzing",
                 "clipping", "completed">>

Stages == {"preprocess_media", "transcribe_video", "analyze_transcript", "clip_segments"}

Kinds == Stages \cup {"process_video_job", "process_clip", "check_render_status",
                      "cleanup_job_files"}

NewJob == [status |-> "pending", err |-> "none", audio |-> FALSE, transcript |-> FALSE]

\* A new ClippedVideo; url is video_url, "none" while it is empty.
NewClip(seg) == [seg |-> seg, status |-> "pending", rid |-> 0, err |-> "none",
                 url |-> "none"]

NoClip == NewClip(0)

\* A task message: process_clip and check_render_status carry the clip id and
\* the number of retries so far (request.retries).
Task(kind, clip, retries) == [kind |-> kind, clip |-> clip, retries |-> retries]

\* The local state of a task execution.
Exec(kind, pc, loc, clip, retries, cloc, segs, i) ==
    [kind |-> kind, pc |-> pc, loc |-> loc, clip |-> clip, retries |-> retries,
     cloc |-> cloc, segs |-> segs, i |-> i]

JobExec(kind, pc, loc) == Exec(kind, pc, loc, 0, 0, NoClip, <<>>, 0)

One(x) == SetToBag({x})

\* No MultipartUploader has been made; no upload endpoint has answered.
NoClient == [file_size |-> 0, part_size |-> 0]

NoResp == [op |-> "none", code |-> 0]

\* Object keys, as the sequences of their path components: a rendered clip
\* (tasks.py line 428), a clip below a cube prefix, and an upload of a file that
\* is named clips.
Keys == {<<"clips", "job", "segment", "clip.mp4">>, <<"cube", "clips", "b.mp4">>,
         <<"uploads", "clips">>}

\* No object under a key.
NoObject == [last_modified |-> -1, size |-> 0]

\* No cleanup has run yet.
NoResult == [deleted_count |-> 0, deleted_size |-> 0, retained_count |-> 0,
             deleted_files |-> <<>>, total_files_scanned |-> 0, dry_run |-> TRUE,
             retention_days |-> -1]

\* No call of wait_for_render.
NoWait == [max_wait |-> 0, check_interval |-> 0, elapsed |-> 0, polls |-> 0,
           status |-> "none", outcome |-> "none"]

\* A MultipartUploader as __init__ leaves it (lines 25-54), before main calls
\* initiate_upload.  todo holds the part numbers whose upload_single_part has
\* not returned; submitted is the list complete_upload sent; aborts counts the
\* abort requests sent.
NoUploader == [pc |-> "initiate", upload_id |-> 0, num_parts |-> 0, todo |-> {},
               uploaded_parts |-> <<>>, failed_parts |-> {}, interrupted |-> FALSE,
               submitted |-> <<>>, completes |-> 0, aborts |-> 0, cause |-> "none"]

\* The calls outside the pipeline at rest.
\* tus_views.py: no info file (line 206), and the state before tus_create.
NoInfo == [offset |-> -1, completed |-> FALSE]

NoPatch == [pc |-> "idle", offset |-> 0, data |-> 0, upload_info |-> NoInfo, code |-> 0]

NoTus == [created |-> FALSE, length |-> 0, file |-> -1, info |-> NoInfo, appended |-> 0,
          object |-> -1, transfers |-> 0, sessions |-> <<>>, patches |-> 0, code |-> 0,
          handlers |-> [h \in 1..MaxHandlers |-> NoPatch]]

NoServices == wait = NoWait /\ uploader = NoUploader /\ tus = NoTus

\* The storage cleanup at rest: an empty bucket, no rows, no run.
NoLifecycle ==
    /\ bucket = [k \in Keys |-> NoObject]
    /\ rows = <<>>
    /\ now = 0
    /\ cutoff_date = 0
    /\ result = NoResult

Queued == BagToSet(queue)

Running == BagToSet(running)

\* ------------------------------------------------------------ helpers
\* The history of statuses: held = k says the job has held StatusOrder[1..k]
\* in that order (other statuses may lie in between).
HeldAfter(s) == IF held < Len(StatusOrder) /\ StatusOrder[held + 1] = s
                THEN held + 1 ELSE held

\* Model.save(): every field of the local copy is written to the row.
Save(loc) == /\ job' = loc
             /\ held' = HeldAfter(loc.status)

\* The except-blocks of the job tasks: fetch the row again, set failed and the
\* message, save.
FailJob(msg) == Save([job EXCEPT !.status = "failed", !.err = msg])

\* kind.delay(...): one more message in the queue.
Delay(t) == /\ queue' = queue (+) One(t)
            /\ sent' = [sent EXCEPT ![t.kind] = @ + 1]

\* A worker takes the message t from the queue.
Take(t) == /\ t \in Queued
           /\ BagCardinality(running) < MaxWorkers

Begin(e) == running' = running (+) One(e)

Step(e, f) == running' = (running (-) One(e)) (+) One(f)

End(e) == running' = running (-) One(e)

\* ------------------------------------------------------------ Init
Init ==
    /\ job = NewJob
    /\ segments = <<>>
    /\ clips = <<>>
    /\ renders = <<>>
    /\ store = [media |-> TRUE, audio |-> FALSE]
    /\ queue = One(Task("process_video_job", 0, 0))
    /\ running = EmptyBag
    /\ triggers = 1
    /\ redelivered = 0
    /\ held = 1
    /\ done = [k \in Stages |-> 0]
    /\ sent = [k \in Kinds |-> IF k = "process_video_job" THEN 1 ELSE 0]
    /\ configured = TRUE
    /\ client = NoClient
    /\ uploads = <<>>
    /\ resp = NoResp
    /\ NoLifecycle
    /\ NoServices

\* ------------------------------------------------------------ environment
\* trigger_job.py: process_video_job.delay(job_id) for an existing job.
trigger_job ==
    /\ (triggers - 1) + redelivered < MaxExtra
    /\ triggers' = triggers + 1
    /\ Delay(Task("process_video_job", 0, 0))
    /\ UNCHANGED <<configured, coordinator, lifecycle, services, job, segments, clips, renders, store, running, redelivered, held, done>>

\* At-least-once delivery: the broker delivers a queued message of one of the
\* kinds K a second time.
Redeliver(K) ==
    /\ (triggers - 1) + redelivered < MaxExtra
    /\ \E t \in Queued : t.kind \in K /\ queue' = queue (+) One(t)
    /\ redelivered' = redelivered + 1
    /\ UNCHANGED <<configured, coordinator, lifecycle, services, job, segments, clips, renders, store, running, triggers, held, done, sent>>

RedeliverJobTask == Redeliver(Stages)

\* ------------------------------------------------------------ process_video_job
\* Lines 22-29: fetch the job, status = 'preprocessing', save, dispatch stage 1.
process_video_job ==
    \E t \in Queued :
        /\ t.kind = "process_video_job"
        /\ Take(t)
        /\ Save([job EXCEPT !.status = "preprocessing"])
        /\ queue' = (queue (-) One(t)) (+) One(Task("preprocess_media", 0, 0))
        /\ sent' = [sent EXCEPT !["preprocess_media"] = @ + 1]
        /\ UNCHANGED <<configured, coordinator, lifecycle, services, segments, clips, renders, store, running, triggers, redelivered, done>>

\* Lines 33-38: the save or the dispatch raised.
process_video_job_error ==
    \E t \in Queued :
        /\ t.kind = "process_video_job"
        /\ Take(t)
        /\ FailJob("process_video_job")
        /\ queue' = queue (-) One(t)
        /\ UNCHANGED <<configured, coordinator, lifecycle, services, segments, clips, renders, store, running, triggers, redelivered,
                       done, sent>>

\* ------------------------------------------------------------ preprocess_media
\* Line 54: fetch the job; the download, the extraction and the upload follow.
preprocess_media_start ==
    \E t \in Queued :
        /\ t.kind = "preprocess_media"
        /\ Take(t)
        /\ queue' = queue (-) One(t)
        /\ Begin(JobExec("preprocess_media", "work", job))
        /\ UNCHANGED <<configured, coordinator, lifecycle, services, job, segments, clips, renders, store, triggers, redelivered,
                       held, done, sent>>

\* Lines 84-119 (and 61-70 without S3): the audio is stored and recorded in the
\* local copy, the local copy is saved, stage 2 is dispatched.
preprocess_media_done ==
    \E e \in Running :
        /\ e.kind = "preprocess_media"
        /\ Save([e.loc EXCEPT !.audio = TRUE])
        /\ store' = [store EXCEPT !.audio = TRUE]
        /\ Delay(Task("transcribe_video", 0, 0))
        /\ done' = [done EXCEPT !["preprocess_media"] = @ + 1]
        /\ End(e)
        /\ UNCHANGED <<configured, coordinator, lifecycle, services, segments, clips, renders, triggers, redelivered>>

\* A variant of transcribe_video_error that swallows the exception.
transcribe_video_error_swallowed ==
    \E e \in Running :
        /\ e.kind = "transcribe_video"
        /\ End(e)
        /\ UNCHANGED <<configured, coordinator, lifecycle, services, job, segments, clips, renders, store, queue, triggers, redelivered,
                       held, done, sent>>

\* A variant of preprocess_media_error that dispatches stage 2 from the
\* except-block.
preprocess_media_error_dispatching ==
    \E e \in Running :
        /\ e.kind = "preprocess_media"
        /\ FailJob("preprocess_media")
        /\ Delay(Task("transcribe_video", 0, 0))
        /\ End(e)
        /\ UNCHANGED <<configured, coordinator, lifecycle, services, segments, clips, renders, store, triggers, redelivered, done>>

\* Lines 121-126: a collaborator raised.
preprocess_media_error ==
    \E e \in Running :
        /\ e.kind = "preprocess_media"
        /\ FailJob("preprocess_media")
        /\ End(e)
        /\ UNCHANGED <<configured, coordinator, lifecycle, services, segments, clips, renders, store, queue, triggers, redelivered,
                       done, sent>>

\* ------------------------------------------------------------ transcribe_video
\* Lines 146-150: fetch the job, status = 'transcribing', save.
transcribe_video_start ==
    \E t \in Queued :
        /\ t.kind = "transcribe_video"
        /\ Take(t)
        /\ queue' = queue (-) One(t)
        /\ Save([job EXCEPT !.status = "transcribing"])
        /\ Begin(JobExec("transcribe_video", "work", [job EXCEPT !.status = "transcribing"]))
        /\ UNCHANGED <<configured, coordinator, lifecycle, services, segments, clips, renders, store, triggers, redelivered, done, sent>>

\* Lines 199-211: the transcript is put in the local copy, the local copy is
\* saved, stage 3 is dispatched.
transcribe_video_done ==
    \E e \in Running :
        /\ e.kind = "transcribe_video"
        /\ Save([e.loc EXCEPT !.transcript = TRUE])
        /\ Delay(Task("analyze_transcript", 0, 0))
        /\ done' = [done EXCEPT !["transcribe_video"] = @ + 1]
        /\ End(e)
        /\ UNCHANGED <<configured, coordinator, lifecycle, services, segments, clips, renders, store, triggers, redelivered>>

\* Lines 218-223: the download or the transcription raised.
transcribe_video_error ==
    \E e \in Running :
        /\ e.kind = "transcribe_video"
        /\ FailJob("transcribe_video")
        /\ End(e)
        /\ UNCHANGED <<configured, coordinator, lifecycle, services, segments, clips, renders, store, queue, triggers, redelivered,
                       done, sent>>

\* ------------------------------------------------------------ analyze_transcript
\* Lines 235-239: fetch the job, status = 'analyzing', save.
analyze_transcript_start ==
    \E t \in Queued :
        /\ t.kind = "analyze_transcript"
        /\ Take(t)
        /\ queue' = queue (-) One(t)
        /\ Save([job EXCEPT !.status = "analyzing"])
        /\ Begin(JobExec("analyze_transcript", "llm", [job EXCEPT !.status = "analyzing"]))
        /\ UNCHANGED <<configured, coordinator, lifecycle, services, segments, clips, renders, store, triggers, redelivered, done, sent>>

\* Line 267, reached when the loop of lines 252-262 is over: stage 4 is dispatched.
analyze_transcript_finish(e) ==
    /\ Delay(Task("clip_segments", 0, 0))
    /\ done' = [done EXCEPT !["analyze_transcript"] = @ + 1]
    /\ End(e)

\* Lines 243-249: the analysis returns a list of n segments.  (The call passes
\* custom_instructions=job.custom_instructions, which neither VideoJob in
\* models.py nor LLMService.analyze_transcript in llm_service.py declares; with
\* those two files as they stand the call raises and analyze_transcript_error
\* is the only continuation.  The call is modelled by its contract: it returns
\* a list or raises.)
analyze_transcript_llm ==
    \E e \in Running, n \in 0..MaxBatch :
        /\ e.kind = "analyze_transcript"
        /\ e.pc = "llm"
        /\ IF n = 0
           THEN analyze_transcript_finish(e)
           ELSE /\ Step(e, [e EXCEPT !.pc = "create", !.segs = [k \in 1..n |-> k - 1]])
                /\ UNCHANGED <<queue, done, sent>>
        /\ UNCHANGED <<configured, coordinator, lifecycle, services, job, segments, clips, renders, store, triggers, redelivered, held>>

\* Lines 252-262: one iteration, TranscriptSegment.objects.create(..., segment_order=i).
analyze_transcript_create ==
    \E e \in Running :
        /\ e.kind = "analyze_transcript"
        /\ e.pc = "create"
        /\ segments' = Append(segments, e.segs[e.i + 1])
        /\ IF e.i + 1 = Len(e.segs)
           THEN analyze_transcript_finish(e)
           ELSE /\ Step(e, [e EXCEPT !.i = e.i + 1])
                /\ UNCHANGED <<queue, done, sent>>
        /\ UNCHANGED <<configured, coordinator, lifecycle, services, job, clips, renders, store, triggers, redelivered, held>>

\* Lines 269-274: the analysis or a create raised.
analyze_transcript_error ==
    \E e \in Running :
        /\ e.kind = "analyze_transcript"
        /\ FailJob("analyze_transcript")
        /\ End(e)
        /\ UNCHANGED <<configured, coordinator, lifecycle, services, segments, clips, renders, store, queue, triggers, redelivered,
                       done, sent>>

\* ------------------------------------------------------------ clip_segments
\* A variant of HasClip for a plain ForeignKey: nothing is refused.
HasClip_NotUnique(s) == FALSE

\* ClippedVideo.segment is a OneToOneField: the database refuses a second
\* ClippedVideo of the segment s.
HasClip(s) == \E c \in 1..Len(clips) : clips[c].seg = s

\* Lines 286-292: fetch the job, status = 'clipping', save, read the segments.
clip_segments_start ==
    \E t \in Queued :
        /\ t.kind = "clip_segments"
        /\ Take(t)
        /\ queue' = queue (-) One(t)
        /\ Save([job EXCEPT !.status = "clipping"])
        /\ Begin(Exec("clip_segments", "loop", [job EXCEPT !.status = "clipping"],
                      0, 0, NoClip, [k \in 1..Len(segments) |-> k], 0))
        /\ UNCHANGED <<configured, coordinator, lifecycle, services, segments, clips, renders, store, triggers, redelivered, done, sent>>

\* A variant of clip_segments_loop that dispatches process_clip only for the
\* first segment.
clip_segments_loop_first_only ==
    \E e \in Running :
        /\ e.kind = "clip_segments"
        /\ e.i < Len(e.segs)
        /\ ~HasClip(e.segs[e.i + 1])
        /\ clips' = Append(clips, NewClip(e.segs[e.i + 1]))
        /\ IF e.i = 0
           THEN Delay(Task("process_clip", Len(clips) + 1, 0))
           ELSE UNCHANGED <<queue, sent>>
        /\ Step(e, [e EXCEPT !.i = e.i + 1])
        /\ UNCHANGED <<configured, coordinator, lifecycle, services, job, segments, renders, store, triggers, redelivered, held, done>>

\* Lines 295-298: one iteration, create the ClippedVideo and dispatch process_clip.
clip_segments_loop ==
    \E e \in Running :
        /\ e.kind = "clip_segments"
        /\ e.i < Len(e.segs)
        /\ ~HasClip(e.segs[e.i + 1])
        /\ clips' = Append(clips, NewClip(e.segs[e.i + 1]))
        /\ Delay(Task("process_clip", Len(clips) + 1, 0))
        /\ Step(e, [e EXCEPT !.i = e.i + 1])
        /\ UNCHANGED <<configured, coordinator, lifecycle, services, job, segments, renders, store, triggers, redelivered, held, done>>

\* Lines 296, 307-312: the create raised IntegrityError, the segment has a clip.
clip_segments_error ==
    \E e \in Running :
        /\ e.kind = "clip_segments"
        /\ e.i < Len(e.segs)
        /\ HasClip(e.segs[e.i + 1])
        /\ FailJob("clip_segments")
        /\ End(e)
        /\ UNCHANGED <<configured, coordinator, lifecycle, services, segments, clips, renders, store, queue, triggers, redelivered,
                       done, sent>>

\* A variant of clip_segments_finish that does not wait for the end of the loop.
clip_segments_finish_early ==
    \E e \in Running :
        /\ e.kind = "clip_segments"
        /\ Save([e.loc EXCEPT !.status = "completed"])
        /\ done' = [done EXCEPT !["clip_segments"] = @ + 1]
        /\ End(e)
        /\ UNCHANGED <<configured, coordinator, lifecycle, services, segments, clips, renders, store, queue, triggers, redelivered, sent>>

\* Lines 301-303: after the loop, status = 'completed', save the local copy.
clip_segments_finish ==
    \E e \in Running :
        /\ e.kind = "clip_segments"
        /\ e.i = Len(e.segs)
        /\ Save([e.loc EXCEPT !.status = "completed"])
        /\ done' = [done EXCEPT !["clip_segments"] = @ + 1]
        /\ End(e)
        /\ UNCHANGED <<configured, coordinator, lifecycle, services, segments, clips, renders, store, queue, triggers, redelivered, sent>>

\* ------------------------------------------------------------ process_clip
\* Lines 324-331: fetch the clip, status = 'processing', save.
process_clip_start ==
    \E t \in Queued :
        /\ t.kind = "process_clip"
        /\ Take(t)
        /\ queue' = queue (-) One(t)
        /\ clips' = [clips EXCEPT ![t.clip].status = "processing"]
        /\ Begin(Exec("process_clip", "submit", NewJob, t.clip, t.retries,
                      [clips[t.clip] EXCEPT !.status = "processing"], <<>>, 0))
        /\ UNCHANGED <<configured, coordinator, lifecycle, services, job, segments, renders, store, triggers, redelivered, held,
                       done, sent>>

\* A variant of process_clip_done that dispatches the first status check twice.
process_clip_done_polling_twice ==
    \E e \in Running :
        /\ e.kind = "process_clip"
        /\ Len(renders) < MaxRenders
        /\ renders' = Append(renders, "rendering")
        /\ clips' = [clips EXCEPT ![e.clip] = [e.cloc EXCEPT !.rid = Len(renders) + 1]]
        /\ queue' = queue (+) One(Task("check_render_status", e.clip, 0))
                          (+) One(Task("check_render_status", e.clip, 0))
        /\ sent' = [sent EXCEPT !["check_render_status"] = @ + 2]
        /\ End(e)
        /\ UNCHANGED <<configured, coordinator, lifecycle, services, job, segments, store, triggers, redelivered, held, done>>

\* Lines 356-368: the rendering service accepts the request and returns a
\* handle; the handle is put in the local copy, the local copy is saved and the
\* first status check is dispatched.
process_clip_done ==
    \E e \in Running :
        /\ e.kind = "process_clip"
        /\ Len(renders) < MaxRenders
        /\ renders' = Append(renders, "rendering")
        /\ clips' = [clips EXCEPT ![e.clip] = [e.cloc EXCEPT !.rid = Len(renders) + 1]]
        /\ Delay(Task("check_render_status", e.clip, 0))
        /\ End(e)
        /\ UNCHANGED <<configured, coordinator, lifecycle, services, job, segments, store, triggers, redelivered, held, done>>

\* self.retry(...) of a task with max_retries = max, called copies times in
\* the execution of the message t (request.retries = t.retries): each call
\* sends the message again with retries + 1, unless that exceeds max, in which
\* case retry raises and sends nothing.  q is the queue without t.
Retry(q, t, max, copies) ==
    IF t.retries < max
    THEN /\ queue' = q (+) [x \in {[t EXCEPT !.retries = @ + 1]} |-> copies]
         /\ BagCardinality(queue') <= MaxQueue
    ELSE queue' = q

\* Lines 370-378: the submission raised; fetch the clip again, status =
\* 'failed', the message, save, retry after 60 s.
process_clip_error ==
    \E e \in Running :
        /\ e.kind = "process_clip"
        /\ clips' = [clips EXCEPT ![e.clip].status = "failed", ![e.clip].err = "submit"]
        /\ Retry(queue, Task("process_clip", e.clip, e.retries), ClipMaxRetries, 1)
        /\ End(e)
        /\ UNCHANGED <<configured, coordinator, lifecycle, services, job, segments, renders, store, triggers, redelivered, held,
                       done, sent>>

\* ------------------------------------------------------------ check_render_status
\* The rendering service answers s for the handle r: the status it has
\* reached, or a terminal status it reaches now.  A render that is done or
\* failed stays so.
Reports(r, s) ==
    /\ \/ renders[r] = s
       \/ renders[r] = "rendering" /\ s \in {"done", "failed"}
    /\ renders' = [renders EXCEPT ![r] = s]

\* A poll of the clip of t gets as far as asking the rendering service
\* (lines 390-397; without a render id the task returns at line 394).
Polls(t) ==
    /\ t.kind = "check_render_status"
    /\ Take(t)
    /\ clips[t.clip].rid # 0

\* Lines 461-462: the job's segments that have a clip, and those whose clip is
\* completed, as the row of the clip c is being saved with the status st.
ClipsOfJob(c, st) ==
    LET cs == [clips EXCEPT ![c].status = st]
    IN [total |-> Cardinality({x \in 1..Len(cs) : cs[x].seg \in 1..Len(segments)}),
        completed |-> Cardinality({x \in 1..Len(cs) : cs[x].status = "completed"})]

\* A variant of VideoUrl that publishes the rendering service's URL whenever
\* the store is configured.
VideoUrl_Swapped(copied) == IF configured THEN "service" ELSE "own"

\* Lines 405-450: video_url is the URL of the copy in the system's own store
\* when S3 is configured and the download and the upload succeeded (copied);
\* otherwise it is the rendering service's URL.
VideoUrl(copied) == IF configured /\ copied THEN "own" ELSE "service"

\* A variant of check_render_status_done that leaves video_url as it was.
check_render_status_done_no_url ==
    \E t \in Queued :
        /\ Polls(t)
        /\ Reports(clips[t.clip].rid, "done")
        /\ clips' = [clips EXCEPT ![t.clip].status = "completed"]
        /\ queue' = queue (-) One(t)
        /\ UNCHANGED <<configured, coordinator, lifecycle, services, job, segments, store, running, triggers,
                       redelivered, held, done, sent>>

\* Lines 399-468: the render is done; video_url is set, status = 'completed',
\* save; when every clip of the job is completed, dispatch cleanup_job_files.
check_render_status_done ==
    \E t \in Queued, copied \in BOOLEAN :
        /\ Polls(t)
        /\ Reports(clips[t.clip].rid, "done")
        /\ clips' = [clips EXCEPT ![t.clip].status = "completed",
                                  ![t.clip].url = VideoUrl(copied)]
        /\ LET n == ClipsOfJob(t.clip, "completed")
           IN IF n.total > 0 /\ n.completed = n.total
              THEN /\ queue' = (queue (-) One(t)) (+) One(Task("cleanup_job_files", 0, 0))
                   /\ sent' = [sent EXCEPT !["cleanup_job_files"] = @ + 1]
              ELSE /\ queue' = queue (-) One(t)
                   /\ UNCHANGED sent
        /\ UNCHANGED <<configured, coordinator, lifecycle, services, job, segments, store, running, triggers, redelivered, held, done>>

\* A variant of check_render_status_failed that fails the parent job as well.
check_render_status_failed_failing_job ==
    \E t \in Queued :
        /\ Polls(t)
        /\ Reports(clips[t.clip].rid, "failed")
        /\ clips' = [clips EXCEPT ![t.clip].status = "failed", ![t.clip].err = "render"]
        /\ FailJob("render")
        /\ queue' = queue (-) One(t)
        /\ UNCHANGED <<configured, coordinator, lifecycle, services, segments, store, running, triggers,
                       redelivered, done, sent>>

\* Lines 470-475: the render failed; status = 'failed', the message, save.
check_render_status_failed ==
    \E t \in Queued :
        /\ Polls(t)
        /\ Reports(clips[t.clip].rid, "failed")
        /\ clips' = [clips EXCEPT ![t.clip].status = "failed", ![t.clip].err = "render"]
        /\ queue' = queue (-) One(t)
        /\ UNCHANGED <<configured, coordinator, lifecycle, services, job, segments, store, running, triggers, redelivered, held,
                       done, sent>>

\* Lines 477-484: the render is neither done nor failed. self.retry(countdown=10)
\* sends the retry and raises celery.exceptions.Retry inside the try block; Retry
\* is an Exception, so line 482 catches it and line 484 calls self.retry again.
check_render_status_pending ==
    \E t \in Queued :
        /\ Polls(t)
        /\ Reports(clips[t.clip].rid, "rendering")
        /\ Retry(queue (-) One(t), t, PollMaxRetries, 2)
        /\ UNCHANGED <<configured, coordinator, lifecycle, services, job, segments, clips, store, running, triggers, redelivered,
                       held, done, sent>>

\* Lines 482-484: the status request raised; one self.retry.  Line 394: a clip
\* without a render id, the task returns.
check_render_status_error ==
    \E t \in Queued :
        /\ t.kind = "check_render_status"
        /\ Take(t)
        /\ IF clips[t.clip].rid # 0
           THEN Retry(queue (-) One(t), t, PollMaxRetries, 1)
           ELSE queue' = queue (-) One(t)
        /\ UNCHANGED <<configured, coordinator, lifecycle, services, job, segments, clips, renders, store, running, triggers,
                       redelivered, held, done, sent>>

\* ------------------------------------------------------------ cleanup_job_files
\* tasks.py lines 498-511 and S3Service.cleanup_job_files: the original media
\* and the extracted audio are deleted from the store; without S3 the task
\* returns at line 505.
cleanup_job_files ==
    \E t \in Queued :
        /\ t.kind = "cleanup_job_files"
        /\ Take(t)
        /\ queue' = queue (-) One(t)
        /\ store' = IF configured THEN [media |-> FALSE, audio |-> FALSE] ELSE store
        /\ UNCHANGED <<configured, coordinator, lifecycle, services, job, segments, clips, renders, running, triggers, redelivered,
                       held, done, sent>>

\* ------------------------------------------------------------ specification
\* The tasks that drive the job: the four stages and their trigger.
JobTasks ==
    \/ process_video_job
    \/ process_video_job_error
    \/ preprocess_media_start
    \/ preprocess_media_done
    \/ preprocess_media_error
    \/ transcribe_video_start
    \/ transcribe_video_done
    \/ transcribe_video_error
    \/ analyze_transcript_start
    \/ analyze_transcript_llm
    \/ analyze_transcript_create
    \/ analyze_transcript_error
    \/ clip_segments_start
    \/ clip_segments_loop
    \/ clip_segments_error
    \/ clip_segments_finish

\* The tasks that drive one clip, and the cleanup they dispatch.
ClipTasks ==
    \/ process_clip_start
    \/ process_clip_done
    \/ process_clip_error
    \/ check_render_status_done
    \/ check_render_status_failed
    \/ check_render_status_pending
    \/ check_render_status_error
    \/ cleanup_job_files

\* The job pipeline up to the fan-out of clip_segments, under repeated triggers
\* and deliveries.  No task of ClipTasks reads or writes the job row.
Next == trigger_job \/ RedeliverJobTask \/ JobTasks

Spec == Init /\ [][Next]_vars

\* Every queued task is executed in the end and every collaborator call returns
\* or raises: a step of a job task that stays possible is taken.
SpecLive == Spec /\ WF_vars(JobTasks)

\* The whole flow of one trigger: the stages, then the clips and their polls;
\* the broker may deliver clip_segments twice.
RedeliverClipSegments == redelivered < MaxRepeat /\ Redeliver({"clip_segments"})

NextFlow == JobTasks \/ ClipTasks \/ RedeliverClipSegments

SpecFlow == Init /\ [][NextFlow]_vars

\* ------------------------------------------------------------ one clip
\* The state in which clip_segments leaves a job with one segment: the job is
\* completed, the segment's ClippedVideo is pending and its process_clip is
\* queued.  S3 is configured or not.
InitPoll ==
    /\ job = [status |-> "completed", err |-> "none", audio |-> TRUE, transcript |-> TRUE]
    /\ segments = <<0>>
    /\ clips = <<NewClip(1)>>
    /\ renders = <<>>
    /\ store = [media |-> TRUE, audio |-> TRUE]
    /\ queue = One(Task("process_clip", 1, 0))
    /\ running = EmptyBag
    /\ triggers = 1
    /\ redelivered = 0
    /\ held = Len(StatusOrder)
    /\ done = [k \in Stages |-> 1]
    /\ sent = [k \in Kinds |->
                  IF k \in {"check_render_status", "cleanup_job_files"} THEN 0 ELSE 1]
    /\ configured \in BOOLEAN
    /\ client = NoClient
    /\ uploads = <<>>
    /\ resp = NoResp
    /\ NoLifecycle
    /\ NoServices

\* The submission of one clip and the polls of its render, each with its whole
\* retry budget, and the cleanup they dispatch.
NextPoll ==
    \/ process_clip_start
    \/ process_clip_done
    \/ process_clip_error
    \/ check_render_status_done
    \/ check_render_status_failed
    \/ check_render_status_pending
    \/ check_render_status_error
    \/ cleanup_job_files

SpecPoll == InitPoll /\ [][NextPoll]_vars

\* A worker executes every queued task of the clip in the end.
SpecPollLive == SpecPoll /\ WF_vars(NextPoll)

\* ------------------------------------------------------------ uploads
\* The file sizes and part sizes a caller declares: small ones, the limits of
\* initiate_multipart_upload and their neighbours, and 520,000,000 bytes in
\* parts of 200,000,000.
FileSizes == (0..MaxParts) \cup {MinPartSize + 1, 3 * MinPartSize, 520000000 \div Unit,
                                 MaxFileSize, MaxFileSize + 1}

PartSizes == {0, 1, 2, MinPartSize - 1, MinPartSize, 200000000 \div Unit}

Filenames == {"", "clip.mp4", "notes.txt"}

ETags == {"", "etag"}

\* The parts lists a caller submits to complete_multipart_upload: up to
\* MaxParts pairs in any order, "etag" standing for the ETag the store returned
\* for the part of that number.
PartLists ==
    UNION {[1..n -> [PartNumber : 1..MaxParts, ETag : ETags]] : n \in 0..MaxParts}

\* utils.detect_file_type on the names of Filenames.
detect_file_type(filename) ==
    CASE filename = "clip.mp4" -> "video"
      [] filename = "talk.mp3" -> "audio"
      [] OTHER -> "unknown"

\* A variant of NumParts that rounds down.
NumParts_Floor(file_size, part_size) == file_size \div part_size

\* views.py line 324: num_parts = (file_size + part_size - 1) // part_size.
NumParts(file_size, part_size) == (file_size + part_size - 1) \div part_size

\* MultipartUploader.__init__ line 35: the same expression in the client.
ClientNumParts(file_size, part_size) == (file_size + part_size - 1) \div part_size

Min(a, b) == IF a < b THEN a ELSE b

\* A variant of PartRange that does not cut the last part at the end of the file.
PartRange_Uncut(n, file_size, part_size) ==
    [start |-> (n - 1) * part_size, end |-> (n - 1) * part_size + part_size]

\* MultipartUploader.upload_single_part lines 222-224: the bytes of part n.
PartRange(n, file_size, part_size) ==
    [start |-> (n - 1) * part_size,
     end |-> Min((n - 1) * part_size + part_size, file_size)]

\* A multipart session of the store.  Its key is uploads/direct/<uuid>/<filename>
\* with a fresh uuid, so the upload id u stands for the key as well.  parts are
\* the parts the store received, num_parts is what initiate answered, object is
\* the list of part numbers of the durable object, once completed.
NewUpload(filename, num_parts) ==
    [state |-> "open", filename |-> filename, num_parts |-> num_parts,
     parts |-> {}, object |-> <<>>]

\* S3Service.file_exists: head_object on the key.
file_exists(key) == key \in 1..Len(uploads) /\ uploads[key].state = "completed"

Response(op, code, arg) == [op |-> op, code |-> code, arg |-> arg]

\* No job row yet.
NoJob == [NewJob EXCEPT !.status = "none"]

\* A caller with a file and a part size, before it has called any endpoint.
InitUpload ==
    /\ job = NoJob
    /\ segments = <<>>
    /\ clips = <<>>
    /\ renders = <<>>
    /\ store = [media |-> FALSE, audio |-> FALSE]
    /\ queue = EmptyBag
    /\ running = EmptyBag
    /\ triggers = 0
    /\ redelivered = 0
    /\ held = 0
    /\ done = [k \in Stages |-> 0]
    /\ sent = [k \in Kinds |-> 0]
    /\ configured \in BOOLEAN
    /\ client \in [file_size : FileSizes, part_size : PartSizes]
    /\ uploads = <<>>
    /\ resp = NoResp
    /\ NoLifecycle
    /\ NoServices

\* The job pipeline and the settings, which the upload endpoints leave alone.
pipeline == <<segments, clips, renders, running, redelivered, done, configured, client,
             lifecycle, services>>

\* A variant of InitiateCode that checks the part size only for large files.
InitiateCode_LaxPartSize(filename, file_size, part_size, raised) ==
    IF ~configured THEN 503
    ELSE IF filename = "" THEN 400
    ELSE IF detect_file_type(filename) = "unknown" THEN 400
    ELSE IF file_size > MaxFileSize THEN 400
    ELSE IF part_size = 0 THEN 500
    ELSE IF part_size < MinPartSize /\ file_size > MinPartSize THEN 400
    ELSE IF raised THEN 500
    ELSE 200

\* initiate_multipart_upload, views.py lines 288-362: the status code of the
\* response.  Line 324 divides by part_size before line 327 checks it, so a
\* part_size of 0 raises ZeroDivisionError, answered 500 by line 358; raised
\* says that the store's create_multipart_upload raised.
InitiateCode(filename, file_size, part_size, raised) ==
    IF ~configured THEN 503
    ELSE IF filename = "" THEN 400
    ELSE IF detect_file_type(filename) = "unknown" THEN 400
    ELSE IF file_size > MaxFileSize THEN 400
    ELSE IF part_size = 0 THEN 500
    ELSE IF part_size < MinPartSize THEN 400
    ELSE IF raised THEN 500
    ELSE 200

\* initiate_multipart_upload: on 200 the store has a new session and the
\* response carries num_parts.  Sessions share no state, every one having a
\* key of its own, so one session is modelled.
initiate_multipart_upload ==
    \E filename \in Filenames, raised \in BOOLEAN :
        LET code == InitiateCode(filename, client.file_size, client.part_size, raised)
        IN /\ IF code = 200
              THEN /\ uploads = <<>>
                   /\ uploads' = Append(uploads,
                          NewUpload(filename, NumParts(client.file_size, client.part_size)))
              ELSE UNCHANGED uploads
           /\ resp' = Response("initiate", code, filename)
           /\ UNCHANGED <<job, store, queue, triggers, held, sent, pipeline>>

\* get_multipart_upload_urls (views.py lines 385-428) signs a URL per part
\* number and MultipartUploader.upload_single_part puts the bytes of the part n
\* to it; the store takes the part while the session is open, a part uploaded
\* again replacing the earlier one.
upload_single_part ==
    \E u \in 1..Len(uploads), n \in 1..MaxParts :
        /\ configured
        /\ client.part_size > 0
        /\ n <= ClientNumParts(client.file_size, client.part_size)
        /\ uploads[u].state = "open"
        /\ LET r == PartRange(n, client.file_size, client.part_size)
           IN uploads' = [uploads EXCEPT ![u].parts =
                             {q \in @ : q.PartNumber # n} \cup
                             {[PartNumber |-> n, size |-> r.end - r.start]}]
        /\ UNCHANGED <<job, store, queue, triggers, held, sent, pipeline, resp>>

Received(u) == {q.PartNumber : q \in uploads[u].parts}

\* The store's CompleteMultipartUpload, which S3Service.complete_multipart_upload
\* (lines 370-375) hands the list to: the session is open, every listed
\* part was received under the listed ETag, the part numbers ascend.  The
\* store was never told file_size or num_parts.
StoreCompletes(u, parts) ==
    /\ uploads[u].state = "open"
    /\ \A i \in 1..Len(parts) :
           parts[i].ETag = "etag" /\ parts[i].PartNumber \in Received(u)
    /\ \A i \in 1..(Len(parts) - 1) : parts[i].PartNumber < parts[i + 1].PartNumber

\* complete_multipart_upload, views.py lines 467-509: 400 without an upload id
\* or with an empty list, otherwise the list goes to the store as it is; the
\* request carries the s3_key of the session.
complete_multipart_upload ==
    \E u \in 0..Len(uploads), parts \in PartLists :
        LET code == IF ~configured THEN 503
                    ELSE IF u = 0 \/ parts = <<>> THEN 400
                    ELSE IF StoreCompletes(u, parts) THEN 200
                    ELSE 500
        IN /\ uploads' = IF code = 200
                         THEN [uploads EXCEPT
                                 ![u].state = "completed",
                                 ![u].object = [i \in 1..Len(parts) |-> parts[i].PartNumber]]
                         ELSE uploads
           /\ resp' = Response("complete", code, u)
           /\ UNCHANGED <<job, store, queue, triggers, held, sent, pipeline>>

\* A variant of abort_multipart_upload that answers 200 without calling the store.
abort_multipart_upload_unsent ==
    \E u \in 0..Len(uploads) :
        LET code == IF ~configured THEN 503
                    ELSE IF u = 0 THEN 400
                    ELSE 200
        IN /\ resp' = Response("abort", code, u)
           /\ UNCHANGED <<job, store, queue, triggers, held, sent, pipeline, uploads>>

\* abort_multipart_upload, views.py lines 512-561: the store's
\* AbortMultipartUpload discards an open session and raises for any other.
abort_multipart_upload ==
    \E u \in 0..Len(uploads) :
        LET code == IF ~configured THEN 503
                    ELSE IF u = 0 THEN 400
                    ELSE IF uploads[u].state = "open" THEN 200
                    ELSE 500
        IN /\ uploads' = IF code = 200
                         THEN [uploads EXCEPT ![u].state = "aborted"]
                         ELSE uploads
           /\ resp' = Response("abort", code, u)
           /\ UNCHANGED <<job, store, queue, triggers, held, sent, pipeline>>

\* A variant of create_job_from_s3 whose create replaces the job of a job_id
\* that exists.
create_job_from_s3_replacing ==
    \E key \in 0..(Len(uploads) + 1), raised \in BOOLEAN :
        LET code == IF ~configured THEN 503
                    ELSE IF key = 0 THEN 400
                    ELSE IF ~file_exists(key) THEN 404
                    ELSE IF raised THEN 500
                    ELSE 201
        IN /\ IF code = 201
              THEN /\ Save(NewJob)
                   /\ store' = [store EXCEPT !.media = TRUE]
                   /\ Delay(Task("process_video_job", 0, 0))
                   /\ triggers' = triggers + 1
              ELSE UNCHANGED <<job, store, queue, triggers, held, sent>>
           /\ resp' = Response("create_job", code, key)
           /\ UNCHANGED <<pipeline, uploads>>

\* A variant of create_job_from_s3 without the check of lines 841-846.
create_job_from_s3_unchecked ==
    \E key \in 0..(Len(uploads) + 1), raised \in BOOLEAN :
        LET code == IF ~configured THEN 503
                    ELSE IF key = 0 THEN 400
                    ELSE IF raised \/ job # NoJob THEN 500
                    ELSE 201
        IN /\ IF code = 201
              THEN /\ Save(NewJob)
                   /\ store' = [store EXCEPT !.media = TRUE]
                   /\ Delay(Task("process_video_job", 0, 0))
                   /\ triggers' = triggers + 1
              ELSE UNCHANGED <<job, store, queue, triggers, held, sent>>
           /\ resp' = Response("create_job", code, key)
           /\ UNCHANGED <<pipeline, uploads>>

\* create_job_from_s3, views.py lines 797-877: 400 without a key, 404 when
\* the key does not exist in the store; otherwise the job is created with the
\* job_id of the request and process_video_job is dispatched.  The create
\* raises for a job_id that exists, and may raise otherwise (raised): line 854
\* passes custom_instructions, which VideoJob in models.py does not declare.
create_job_from_s3 ==
    \E key \in 0..(Len(uploads) + 1), raised \in BOOLEAN :
        LET code == IF ~configured THEN 503
                    ELSE IF key = 0 THEN 400
                    ELSE IF ~file_exists(key) THEN 404
                    ELSE IF raised \/ job # NoJob THEN 500
                    ELSE 201
        IN /\ IF code = 201
              THEN /\ Save(NewJob)
                   /\ store' = [store EXCEPT !.media = TRUE]
                   /\ Delay(Task("process_video_job", 0, 0))
                   /\ triggers' = triggers + 1
              ELSE UNCHANGED <<job, store, queue, triggers, held, sent>>
           /\ resp' = Response("create_job", code, key)
           /\ UNCHANGED <<pipeline, uploads>>

\* The calls of a caller of the upload endpoints, in any order and number.
NextUpload ==
    \/ initiate_multipart_upload
    \/ upload_single_part
    \/ complete_multipart_upload
    \/ abort_multipart_upload
    \/ create_job_from_s3

SpecUpload == InitUpload /\ [][NextUpload]_vars

\* ------------------------------------------------------------ upload client
\* main of test_multipart_upload.py (lines 351-416) driving one
\* MultipartUploader against the upload endpoints.  A request of the client is
\* answered, or it raises in the client; a request that raises may have been
\* carried out by the server all the same (answered = FALSE).

\* The file of the client and its part size: at most MaxParts + 1 parts.
ClientFiles == {c \in [file_size : FileSizes, part_size : PartSizes] :
                   /\ c.part_size > 0
                   /\ ClientNumParts(c.file_size, c.part_size) <= MaxParts + 1}

InitClient ==
    /\ job = NoJob
    /\ segments = <<>>
    /\ clips = <<>>
    /\ renders = <<>>
    /\ store = [media |-> FALSE, audio |-> FALSE]
    /\ queue = EmptyBag
    /\ running = EmptyBag
    /\ triggers = 0
    /\ redelivered = 0
    /\ held = 0
    /\ done = [k \in Stages |-> 0]
    /\ sent = [k \in Kinds |-> 0]
    /\ configured = TRUE
    /\ client \in ClientFiles
    /\ uploads = <<>>
    /\ resp = NoResp
    /\ NoLifecycle
    /\ wait = NoWait
    /\ tus = NoTus
    /\ uploader = [NoUploader EXCEPT
                      !.num_parts = ClientNumParts(client.file_size, client.part_size)]

\* What the client and the endpoints it calls leave alone.
backend == <<segments, clips, renders, running, redelivered, done, configured, client,
             resp, lifecycle, wait, tus>>

\* abort_upload (lines 330-348) called by main as it gives up for the reason
\* cause: no request without an upload id; else one request, by which the
\* store discards the session if it is open.  ups and up are the sessions and
\* the uploader as the failed step left them.
AbortUpload(cause, ups, up) ==
    /\ uploader' = [up EXCEPT !.pc = "done", !.cause = cause,
                       !.aborts = IF up.upload_id = 0 THEN @ ELSE @ + 1]
    /\ uploads' = IF up.upload_id # 0 /\ ups[up.upload_id].state = "open"
                  THEN [ups EXCEPT ![up.upload_id].state = "aborted"]
                  ELSE ups

\* initiate_upload (lines 92-132): on 200 the ids of the response are kept;
\* on another answer main returns; when the request raises main's handler
\* calls abort_upload, which has no upload id to send.
main_initiate_upload ==
    \E raised \in BOOLEAN, answered \in BOOLEAN :
        /\ uploader.pc = "initiate"
        /\ LET code == InitiateCode("clip.mp4", client.file_size, client.part_size, raised)
               ups == IF code = 200
                      THEN Append(uploads, NewUpload("clip.mp4",
                               NumParts(client.file_size, client.part_size)))
                      ELSE uploads
           IN IF answered /\ code = 200
              THEN /\ uploads' = ups
                   /\ uploader' = [uploader EXCEPT !.pc = "urls", !.upload_id = Len(ups)]
              ELSE IF answered
              THEN /\ uploads' = ups
                   /\ uploader' = [uploader EXCEPT !.pc = "done", !.cause = "refused"]
              ELSE AbortUpload("initiate_error", ups, uploader)
        /\ UNCHANGED <<job, store, queue, triggers, held, sent, backend>>

\* upload_parts, lines 147-166: the URLs of all parts are asked for; with them
\* a thread is started for every part, without them upload_parts returns
\* False and main aborts.
upload_parts_start ==
    \E urls \in BOOLEAN :
        /\ uploader.pc = "urls"
        /\ IF urls /\ uploader.num_parts > 0
           THEN /\ uploader' = [uploader EXCEPT !.pc = "parts",
                                                !.todo = 1..uploader.num_parts]
                /\ UNCHANGED uploads
           ELSE AbortUpload("part", uploads, uploader)
        /\ UNCHANGED <<job, store, queue, triggers, held, sent, backend>>

\* upload_single_part of a thread (lines 220-261): the store takes the part
\* and the thread appends its number and ETag under parts_lock.
upload_parts_put ==
    \E n \in uploader.todo :
        /\ uploader.pc = "parts"
        /\ uploads' = [uploads EXCEPT ![uploader.upload_id].parts =
                          {q \in @ : q.PartNumber # n} \cup
                          {[PartNumber |-> n,
                            size |-> PartRange(n, client.file_size, client.part_size).end
                                   - PartRange(n, client.file_size, client.part_size).start]}]
        /\ uploader' = [uploader EXCEPT
                           !.todo = @ \ {n},
                           !.uploaded_parts = Append(@, [PartNumber |-> n, ETag |-> "etag"])]
        /\ UNCHANGED <<job, store, queue, triggers, held, sent, backend>>

\* The PUT of a thread is refused or raises: the thread returns False and
\* upload_parts puts the number in failed_parts (lines 169-177).
upload_parts_put_failed ==
    \E n \in uploader.todo :
        /\ uploader.pc = "parts"
        /\ uploader' = [uploader EXCEPT !.todo = @ \ {n}, !.failed_parts = @ \cup {n}]
        /\ UNCHANGED <<job, store, queue, triggers, held, sent, backend, uploads>>

\* Lines 183-192 and 388-391: every thread has returned.
upload_parts_end ==
    /\ uploader.pc = "parts"
    /\ uploader.todo = {}
    /\ IF uploader.interrupted THEN AbortUpload("interrupt", uploads, uploader)
       ELSE IF uploader.failed_parts # {} THEN AbortUpload("part", uploads, uploader)
       ELSE /\ uploader' = [uploader EXCEPT !.pc = "complete"]
            /\ UNCHANGED uploads
    /\ UNCHANGED <<job, store, queue, triggers, held, sent, backend>>

\* list.sort(key=PartNumber), as an insertion sort.
RECURSIVE SortParts(_)
SortParts(parts) ==
    IF parts = <<>> THEN <<>>
    ELSE LET rest == SortParts(Tail(parts))
             x == Head(parts)
             low == SelectSeq(rest, LAMBDA q : q.PartNumber < x.PartNumber)
             high == SelectSeq(rest, LAMBDA q : q.PartNumber >= x.PartNumber)
         IN low \o <<x>> \o high

\* A variant of complete_upload that submits the parts in the order in which
\* the threads appended them.
main_complete_upload_unsorted ==
    \E answered \in BOOLEAN :
        /\ uploader.pc = "complete"
        /\ LET parts == uploader.uploaded_parts
               u == uploader.upload_id
               ok == parts # <<>> /\ StoreCompletes(u, parts)
               ups == IF ok
                      THEN [uploads EXCEPT
                              ![u].state = "completed",
                              ![u].object = [i \in 1..Len(parts) |-> parts[i].PartNumber]]
                      ELSE uploads
           IN IF answered /\ ok
              THEN /\ uploads' = ups
                   /\ uploader' = [uploader EXCEPT !.pc = "create_job", !.submitted = parts,
                                                   !.completes = @ + 1]
              ELSE AbortUpload(IF answered THEN "complete" ELSE "complete_error", ups,
                               [uploader EXCEPT !.submitted = parts, !.completes = @ + 1])
        /\ UNCHANGED <<job, store, queue, triggers, held, sent, backend>>

\* complete_upload (lines 263-296) and lines 393-396: the parts are sorted and
\* sent; on 200 main goes on, otherwise it aborts.
main_complete_upload ==
    \E answered \in BOOLEAN :
        /\ uploader.pc = "complete"
        /\ LET parts == SortParts(uploader.uploaded_parts)
               u == uploader.upload_id
               ok == parts # <<>> /\ StoreCompletes(u, parts)
               ups == IF ok
                      THEN [uploads EXCEPT
                              ![u].state = "completed",
                              ![u].object = [i \in 1..Len(parts) |-> parts[i].PartNumber]]
                      ELSE uploads
           IN IF answered /\ ok
              THEN /\ uploads' = ups
                   /\ uploader' = [uploader EXCEPT !.pc = "create_job", !.submitted = parts,
                                                   !.completes = @ + 1]
              ELSE AbortUpload(IF answered THEN "complete" ELSE "complete_error", ups,
                               [uploader EXCEPT !.submitted = parts, !.completes = @ + 1])
        /\ UNCHANGED <<job, store, queue, triggers, held, sent, backend>>

\* create_job (lines 298-328) and lines 398-400: create_job_from_s3 creates the
\* job or refuses; on 201 main is done, on another answer it returns, and when
\* the request raises the handler of lines 411-414 aborts.
main_create_job ==
    \E raised \in BOOLEAN, answered \in BOOLEAN :
        /\ uploader.pc = "create_job"
        /\ LET code == IF ~file_exists(uploader.upload_id) THEN 404
                       ELSE IF raised \/ job # NoJob THEN 500
                       ELSE 201
           IN /\ IF code = 201
                 THEN /\ Save(NewJob)
                      /\ store' = [store EXCEPT !.media = TRUE]
                      /\ Delay(Task("process_video_job", 0, 0))
                      /\ triggers' = triggers + 1
                 ELSE UNCHANGED <<job, store, queue, triggers, held, sent>>
              /\ IF answered
                 THEN /\ uploader' = [uploader EXCEPT !.pc = "done",
                                         !.cause = IF code = 201 THEN "none" ELSE "create_job"]
                      /\ UNCHANGED uploads
                 ELSE AbortUpload("create_job_error", uploads, uploader)
        /\ UNCHANGED backend

\* KeyboardInterrupt (lines 409-410): while the threads run, the executor waits
\* for them before the handler aborts; at another step the handler aborts.
main_interrupt ==
    /\ uploader.pc \in {"urls", "parts", "complete", "create_job"}
    /\ ~uploader.interrupted
    /\ IF uploader.pc = "parts"
       THEN /\ uploader' = [uploader EXCEPT !.interrupted = TRUE]
            /\ UNCHANGED uploads
       ELSE AbortUpload("interrupt", uploads, uploader)
    /\ UNCHANGED <<job, store, queue, triggers, held, sent, backend>>

NextClient ==
    \/ main_initiate_upload
    \/ upload_parts_start
    \/ upload_parts_put
    \/ upload_parts_put_failed
    \/ upload_parts_end
    \/ main_complete_upload
    \/ main_create_job
    \/ main_interrupt

SpecClient == InitClient /\ [][NextClient]_vars

\* ------------------------------------------------------------ TUS uploads
\* tus_views.py: one upload, created by tus_create and fed by PATCH requests,
\* up to MaxHandlers of which are handled at the same time (the views hold no
\* lock).  tus.info is the info file, which every request loads and which
\* _upload_metadata mirrors; tus.file is the size of the upload file, -1 when
\* there is none; tus.object is the size of the object under the upload's S3
\* key, -1 when there is none.  A handler of PATCH is split where another
\* request can come between: after the offset check, after the append and
\* after the info file is written.

InitTus ==
    /\ job = NoJob
    /\ segments = <<>>
    /\ clips = <<>>
    /\ renders = <<>>
    /\ store = [media |-> FALSE, audio |-> FALSE]
    /\ queue = EmptyBag
    /\ running = EmptyBag
    /\ triggers = 0
    /\ redelivered = 0
    /\ held = 0
    /\ done = [k \in Stages |-> 0]
    /\ sent = [k \in Kinds |-> 0]
    /\ configured = TRUE
    /\ client = [file_size |-> 0, part_size |-> 0]
    /\ uploads = <<>>
    /\ resp = NoResp
    /\ NoLifecycle
    /\ NoServices

\* What a TUS request leaves alone.
site == <<job, segments, clips, renders, store, queue, running, triggers, redelivered,
          held, done, sent, configured, coordinator, lifecycle, wait, uploader>>

\* tus_create (lines 103-183): 400 without Upload-Length (0 here), 413 above
\* TUS_MAX_SIZE; otherwise the info file and an empty upload file are written,
\* and a body sent with the right Content-Type is appended and counted.
tus_create ==
    \E upload_length \in (0..MaxLength) \cup {TusMaxSize + 1}, body \in 0..MaxData,
       octet_stream \in BOOLEAN :
        /\ ~tus.created
        /\ tus' = IF upload_length = 0 THEN [tus EXCEPT !.code = 400]
                  ELSE IF upload_length > TusMaxSize THEN [tus EXCEPT !.code = 413]
                  ELSE LET written == IF octet_stream THEN body ELSE 0
                       IN [tus EXCEPT !.created = TRUE,
                                      !.length = upload_length,
                                      !.file = written,
                                      !.appended = written,
                                      !.info = [offset |-> written, completed |-> FALSE],
                                      !.code = 201]
        /\ UNCHANGED site

\* A variant of the PATCH handler that appends whatever offset the client
\* sent.
tus_upload_patch_unchecked ==
    \E h \in 1..MaxHandlers, client_offset \in 0..MaxLength, data \in 0..MaxData,
       header \in {"ok", "Tus-Resumable", "Content-Type"} :
        /\ tus.created
        /\ tus.handlers[h].pc \in {"idle", "done"}
        /\ tus.patches < MaxPatches
        /\ LET code == IF header = "Tus-Resumable" THEN 412
                       ELSE IF tus.info = NoInfo THEN 404
                       ELSE IF header = "Content-Type" THEN 415
                       ELSE 0
           IN tus' = [tus EXCEPT
                        !.patches = @ + 1,
                        !.handlers[h] = [pc |-> IF code = 0 THEN "append" ELSE "done",
                                         offset |-> client_offset, data |-> data,
                                         upload_info |-> IF code = 0 THEN tus.info ELSE NoInfo,
                                         code |-> code]]
        /\ UNCHANGED site

\* tus_upload, PATCH, lines 197-238: 412 for an unsupported Tus-Resumable, 404
\* without the info file, 415 for another Content-Type, 409 when Upload-Offset
\* is not the offset of the loaded upload_info; otherwise the handler goes on
\* to append.
tus_upload_patch ==
    \E h \in 1..MaxHandlers, client_offset \in 0..MaxLength, data \in 0..MaxData,
       header \in {"ok", "Tus-Resumable", "Content-Type"} :
        /\ tus.created
        /\ tus.handlers[h].pc \in {"idle", "done"}
        /\ tus.patches < MaxPatches
        /\ LET code == IF header = "Tus-Resumable" THEN 412
                       ELSE IF tus.info = NoInfo THEN 404
                       ELSE IF header = "Content-Type" THEN 415
                       ELSE IF client_offset # tus.info.offset THEN 409
                       ELSE 0
           IN tus' = [tus EXCEPT
                        !.patches = @ + 1,
                        !.handlers[h] = [pc |-> IF code = 0 THEN "append" ELSE "done",
                                         offset |-> client_offset, data |-> data,
                                         upload_info |-> IF code = 0 THEN tus.info ELSE NoInfo,
                                         code |-> code]]
        /\ UNCHANGED site

\* Lines 240-243: the body is appended to the upload file, which open(.., 'ab')
\* creates when it is gone.
tus_upload_append ==
    \E h \in 1..MaxHandlers :
        /\ tus.handlers[h].pc = "append"
        /\ tus' = [tus EXCEPT
                     !.file = (IF @ < 0 THEN 0 ELSE @) + tus.handlers[h].data,
                     !.appended = @ + tus.handlers[h].data,
                     !.handlers[h].pc = "update"]
        /\ UNCHANGED site

\* Lines 245-267: the offset of the loaded upload_info plus the length of the
\* body is stored, with the rest of the loaded upload_info, in the info file;
\* the upload is transferred when the offset has reached a known
\* Upload-Length, and answered 204 otherwise.
tus_upload_update ==
    \E h \in 1..MaxHandlers :
        /\ tus.handlers[h].pc = "update"
        /\ LET loaded == tus.handlers[h].upload_info
               new_offset == loaded.offset + tus.handlers[h].data
               complete == new_offset >= tus.length
           IN tus' = [tus EXCEPT
                        !.info = [loaded EXCEPT !.offset = new_offset],
                        !.handlers[h] =
                            IF complete
                            THEN [@ EXCEPT !.upload_info.offset = new_offset,
                                           !.pc = "transfer"]
                            ELSE [@ EXCEPT !.upload_info = NoInfo, !.pc = "done",
                                           !.code = 204]]
        /\ UNCHANGED site

\* transfer_to_s3 (lines 287-371) and lines 256-264: without the upload file it
\* raises; a file above 100 MiB goes through a multipart session (initiate,
\* one part per 100 MiB, complete), another through put_object.  After the
\* object is stored the info file gets the S3 key and completed, and the
\* upload file is removed.  A call of the store that raises ends the transfer
\* where it stands; tus_upload logs the exception and answers 204.
transfer_to_s3 ==
    \E h \in 1..MaxHandlers, outcome \in {"ok", "initiate", "part", "complete", "put"} :
        /\ tus.handlers[h].pc = "transfer"
        /\ LET multipart == tus.file > TusPartSize
               started == multipart /\ outcome # "initiate"
               stored == /\ tus.file >= 0
                         /\ IF multipart THEN outcome = "ok" ELSE outcome # "put"
               answered == [tus.handlers[h] EXCEPT !.upload_info = NoInfo, !.pc = "done",
                                                   !.code = 204]
           IN tus' = [tus EXCEPT
                        !.sessions = IF tus.file >= 0 /\ started
                                     THEN Append(@, IF outcome = "ok" THEN "completed"
                                                    ELSE "open")
                                     ELSE @,
                        !.object = IF stored THEN tus.file ELSE @,
                        !.transfers = IF stored THEN @ + 1 ELSE @,
                        !.info = IF stored
                                 THEN [tus.handlers[h].upload_info EXCEPT !.completed = TRUE]
                                 ELSE @,
                        !.file = IF stored THEN -1 ELSE @,
                        !.handlers[h] = answered]
        /\ UNCHANGED site

\* tus_upload, DELETE, lines 269-282: the upload file and the info file are
\* removed; 404 when there is no info file.
tus_upload_delete ==
    /\ tus.created
    /\ tus.info # NoInfo
    /\ tus' = [tus EXCEPT !.file = -1, !.info = NoInfo, !.code = 204]
    /\ UNCHANGED site

NextTus ==
    \/ tus_create
    \/ tus_upload_patch
    \/ tus_upload_append
    \/ tus_upload_update
    \/ transfer_to_s3
    \/ tus_upload_delete

SpecTus == InitTus /\ [][NextTus]_vars

SpecTusLive == SpecTus /\ WF_vars(NextTus)

\* ------------------------------------------------------------ wait_for_render
\* ShotstackService.wait_for_render (shotstack_service.py lines 169-198), which
\* _run_workflow calls with max_wait=300, check_interval=5 (views.py line 2027).
\* polls counts the calls of get_render_status; status is the last status one
\* of them returned.

InitWait ==
    /\ job = NoJob
    /\ segments = <<>>
    /\ clips = <<>>
    /\ renders = <<>>
    /\ store = [media |-> FALSE, audio |-> FALSE]
    /\ queue = EmptyBag
    /\ running = EmptyBag
    /\ triggers = 0
    /\ redelivered = 0
    /\ held = 0
    /\ done = [k \in Stages |-> 0]
    /\ sent = [k \in Kinds |-> 0]
    /\ configured = TRUE
    /\ client = NoClient
    /\ uploads = <<>>
    /\ resp = NoResp
    /\ NoLifecycle
    /\ wait \in {[NoWait EXCEPT !.max_wait = m, !.check_interval = c] :
                    m \in 1..MaxWait, c \in 1..MaxInterval}
    /\ uploader = NoUploader
    /\ tus = NoTus

\* What a step of wait_for_render leaves alone.
outside == <<job, segments, clips, renders, store, queue, running, triggers, redelivered,
             held, done, sent, configured, coordinator, lifecycle, uploader, tus>>

\* The loop is entered: elapsed < max_wait and no return or raise so far.
Waiting_for_render == wait.outcome = "none" /\ wait.elapsed < wait.max_wait

\* A variant of wait_for_render_poll that counts one second per sleep.
wait_for_render_poll_counting_seconds ==
    \E st \in {"queued", "rendering"} :
        /\ Waiting_for_render
        /\ wait' = [wait EXCEPT !.polls = @ + 1, !.status = st, !.elapsed = @ + 1]
        /\ UNCHANGED outside

\* Lines 184-195: the status is neither done nor failed; sleep, count the sleep.
wait_for_render_poll ==
    \E st \in {"queued", "rendering"} :
        /\ Waiting_for_render
        /\ wait' = [wait EXCEPT !.polls = @ + 1, !.status = st,
                                !.elapsed = @ + wait.check_interval]
        /\ UNCHANGED outside

\* Lines 186-188: done, the status is returned.
wait_for_render_done ==
    /\ Waiting_for_render
    /\ wait' = [wait EXCEPT !.polls = @ + 1, !.status = "done", !.outcome = "returned"]
    /\ UNCHANGED outside

\* Lines 189-192: failed, raise Exception('Render failed: ...').
wait_for_render_failed ==
    /\ Waiting_for_render
    /\ wait' = [wait EXCEPT !.polls = @ + 1, !.status = "failed",
                            !.outcome = "render_failed"]
    /\ UNCHANGED outside

\* get_render_status raised (lines 165-167); wait_for_render has no handler.
wait_for_render_error ==
    /\ Waiting_for_render
    /\ wait' = [wait EXCEPT !.polls = @ + 1, !.outcome = "status_error"]
    /\ UNCHANGED outside

\* Line 198: the loop is left, raise Exception('Render timed out ...').
wait_for_render_timeout ==
    /\ wait.outcome = "none"
    /\ wait.elapsed >= wait.max_wait
    /\ wait' = [wait EXCEPT !.outcome = "timed_out"]
    /\ UNCHANGED outside

NextWait ==
    \/ wait_for_render_poll
    \/ wait_for_render_done
    \/ wait_for_render_failed
    \/ wait_for_render_error
    \/ wait_for_render_timeout

SpecWait == InitWait /\ [][NextWait]_vars

\* The status request answers or raises, and the sleep ends.
SpecWaitLive == SpecWait /\ WF_vars(NextWait)


\* ------------------------------------------------------------ storage cleanup
\* S3Service.bulk_cleanup_cloudcube (s3_service.py lines 611-740), its endpoint
\* (views.py lines 937-1017) and its daily task (tasks.py lines 520-559).
\* Timestamps are whole days.

\* list_all_files returns at most max_keys=10000 keys; the response carries the
\* first 100 deleted keys; the beat schedule asks for 5 days.
MaxKeys == 10000
SampleSize == 100
ScheduledRetention == 5

\* The keys in the order the store lists them (by their bytes).
KeyOrder == << <<"clips", "job", "segment", "clip.mp4">>, <<"cube", "clips", "b.mp4">>,
               <<"uploads", "clips">> >>

\* The key check_render_status uploads a clip under (tasks.py line 428).
ClipKey == <<"clips", "job", "segment", "clip.mp4">>

\* upload_file: s3_url and cloudfront_url are a domain followed by the key.
S3Url(s3_key) == <<"bucket.s3.region.amazonaws.com">> \o s3_key

CloudfrontUrl(s3_key) == <<"cdn.cloudfront.net">> \o s3_key

\* get_s3_key_from_url: everything after the domain.
get_s3_key_from_url(url) == Tail(url)

\* A ClippedVideo row as the cleanup reads it; copied says whether
\* check_render_status copied the clip to the bucket (tasks.py lines 405-450).
ClipRow(created_at, status, copied) ==
    [created_at |-> created_at, status |-> status,
     video_s3_url |-> IF copied THEN S3Url(ClipKey) ELSE <<>>,
     video_cloudfront_url |-> IF copied THEN CloudfrontUrl(ClipKey) ELSE <<>>]

\* The rows a job can leave: a clip is copied only when it completes.
ClipRows == {ClipRow(t, "completed", copied) : t \in 0..MaxAge, copied \in BOOLEAN}
                \cup {ClipRow(t, "failed", FALSE) : t \in 0..MaxAge}

\* What the bucket can hold under a key: nothing, or an object of some age; a
\* clip takes one unit of size and an upload two.
Objects(s3_key) ==
    {[last_modified |-> t, size |-> IF s3_key[1] = "uploads" THEN 2 ELSE 1] :
        t \in 0..MaxAge} \cup {NoObject}

\* The key of an uploaded media file (views.py line 231, uploads/direct/...).
MediaKey == <<"uploads", "clips">>

\* A job whose media is under MediaKey and which transcribe_video is working
\* on (tasks.py line 150).
Transcribing == [NewJob EXCEPT !.status = "transcribing", !.audio = TRUE]

\* A bucket and a table some days into the life of the system: the copy of a
\* completed clip, while it exists, is not older than the row of the clip, and
\* the media in the bucket is that of a job in progress.
InitCleanup ==
    /\ segments = <<>>
    /\ clips = <<>>
    /\ renders = <<>>
    /\ store = [media |-> FALSE, audio |-> FALSE]
    /\ queue = EmptyBag
    /\ running = EmptyBag
    /\ triggers = 0
    /\ redelivered = 0
    /\ held = 0
    /\ done = [k \in Stages |-> 0]
    /\ sent = [k \in Kinds |-> 0]
    /\ configured \in BOOLEAN
    /\ client = NoClient
    /\ uploads = <<>>
    /\ resp = NoResp
    /\ bucket \in [Keys -> UNION {Objects(k) : k \in Keys}]
    /\ \A k \in Keys : bucket[k] \in Objects(k)
    /\ job = IF bucket[MediaKey] # NoObject THEN Transcribing ELSE NoJob
    /\ rows \in {<<>>} \cup {<<r>> : r \in ClipRows}
    /\ \A i \in 1..Len(rows) :
           rows[i].video_s3_url # <<>> /\ bucket[ClipKey] # NoObject
               => bucket[ClipKey].last_modified >= rows[i].created_at
    /\ now = MaxAge
    /\ cutoff_date = 0
    /\ result = NoResult
    /\ NoServices

\* The lines 641-676: the keys of the completed clips created since the cutoff.
preserved_keys(cutoff) ==
    UNION {{get_s3_key_from_url(u) :
               u \in {rows[i].video_s3_url, rows[i].video_cloudfront_url} \ {<<>>}} :
           i \in {j \in 1..Len(rows) : /\ rows[j].created_at >= cutoff
                                       /\ rows[j].status = "completed"}}

\* '/clips/' in s3_key or s3_key.startswith('clips/')
IsClipPath(s3_key) == \E i \in 1..(Len(s3_key) - 1) : s3_key[i] = "clips"

\* list_all_files(prefix='', max_keys=10000)
list_all_files ==
    LET all == SelectSeq(KeyOrder, LAMBDA k : bucket[k] # NoObject)
    IN SubSeq(all, 1, Min(Len(all), MaxKeys))

\* The path rule with the cutoff day itself left out.
should_preserve_after_cutoff(s3_key, cutoff) ==
    \/ s3_key \in preserved_keys(cutoff)
    \/ /\ IsClipPath(s3_key)
       /\ bucket[s3_key].last_modified > cutoff

\* The lines 693-703: a key of a recent clip, or a clip path modified since the
\* cutoff.
should_preserve(s3_key, cutoff) ==
    \/ s3_key \in preserved_keys(cutoff)
    \/ /\ IsClipPath(s3_key)
       /\ bucket[s3_key].last_modified >= cutoff

RECURSIVE SizeOf(_)
SizeOf(files) == IF files = <<>> THEN 0
                 ELSE bucket[Head(files)].size + SizeOf(Tail(files))

Keep(files, n) == SubSeq(files, 1, Min(Len(files), n))

Range(q) == {q[i] : i \in 1..Len(q)}

\* A run that calls delete_file whatever dry_run says.
CleanupRun_ignoring_dry_run(retention_days, dry_run) ==
    LET cutoff == now - retention_days
        all_files == list_all_files
        deleted_files == SelectSeq(all_files, LAMBDA k : ~should_preserve(k, cutoff))
    IN \E raised \in SUBSET Range(deleted_files) :
        /\ cutoff_date' = cutoff
        /\ bucket' = [k \in Keys |->
                         IF k \in Range(deleted_files) \ raised
                         THEN NoObject ELSE bucket[k]]
        /\ result' = [deleted_count |-> Len(deleted_files),
                      deleted_size |-> SizeOf(deleted_files),
                      retained_count |-> Len(all_files) - Len(deleted_files),
                      deleted_files |-> Keep(deleted_files, SampleSize),
                      total_files_scanned |-> Len(all_files),
                      dry_run |-> dry_run,
                      retention_days |-> retention_days]

\* One run of S3Service.bulk_cleanup_cloudcube; delete_file raised for the keys
\* in raised, which the loop only logs (lines 711-716).
CleanupRun(retention_days, dry_run) ==
    LET cutoff == now - retention_days
        all_files == list_all_files
        deleted_files == SelectSeq(all_files, LAMBDA k : ~should_preserve(k, cutoff))
    IN \E raised \in SUBSET (IF dry_run THEN {} ELSE Range(deleted_files)) :
        /\ cutoff_date' = cutoff
        /\ bucket' = [k \in Keys |->
                         IF ~dry_run /\ k \in Range(deleted_files) \ raised
                         THEN NoObject ELSE bucket[k]]
        /\ result' = [deleted_count |-> Len(deleted_files),
                      deleted_size |-> SizeOf(deleted_files),
                      retained_count |-> Len(all_files) - Len(deleted_files),
                      deleted_files |-> Keep(deleted_files, SampleSize),
                      total_files_scanned |-> Len(all_files),
                      dry_run |-> dry_run,
                      retention_days |-> retention_days]

\* POST bulk-cleanup: 503 without the store, 400 for a negative retention_days,
\* 500 when the run raises (the listing failed), else the run and 200.
bulk_cleanup_cloudcube ==
    \E retention_days \in -1..MaxRetention, dry_run \in BOOLEAN, listed \in BOOLEAN :
        LET code == IF ~configured THEN 503
                    ELSE IF retention_days < 0 THEN 400
                    ELSE IF ~listed THEN 500 ELSE 200
        IN /\ IF code = 200
              THEN CleanupRun(retention_days, dry_run)
              ELSE UNCHANGED <<bucket, cutoff_date, result>>
           /\ resp' = Response("cleanup", code, IF code = 200 THEN retention_days ELSE -1)
           /\ UNCHANGED <<job, segments, clips, renders, store, queue, running, triggers,
                          redelivered, held, done, sent, configured, client, uploads, services,
                          rows, now>>

\* The daily task: nothing without the store, else a run that deletes.
scheduled_cloudcube_cleanup ==
    /\ configured
    /\ CleanupRun(ScheduledRetention, FALSE)
    /\ UNCHANGED <<job, segments, clips, renders, store, queue, running, triggers,
                   redelivered, held, done, sent, configured, coordinator, services, rows, now>>

\* A day passes.
Tick ==
    /\ now < MaxAge + MaxTicks
    /\ now' = now + 1
    /\ UNCHANGED <<job, segments, clips, renders, store, queue, running, triggers,
                   redelivered, held, done, sent, configured, coordinator, services, bucket, rows,
                   cutoff_date, result>>

NextCleanup == bulk_cleanup_cloudcube \/ scheduled_cloudcube_cleanup \/ Tick

SpecCleanup == InitCleanup /\ [][NextCleanup]_vars


\* ------------------------------------------------------------ claims
Terminal == {"completed", "failed"}

Successor(a, b) == \E k \in 1..(Len(StatusOrder) - 1) :
                       StatusOrder[k] = a /\ StatusOrder[k + 1] = b

\* The stage whose success path dispatches the stage k.
Before(k) == CASE k = "transcribe_video" -> "preprocess_media"
               [] k = "analyze_transcript" -> "transcribe_video"
               [] k = "clip_segments" -> "analyze_transcript"

Present(k) == \/ \E t \in Queued : t.kind = k
              \/ \E e \in Running : e.kind = k

\* C1: every change of the job's status goes from a status to its successor in
\* pending -> preprocessing -> transcribing -> analyzing -> clipping ->
\* completed, or to failed; and a job that is completed has held every status
\* of that chain in that order.
C1_StatusFollowsOrder ==
    [][/\ job'.status # job.status =>
            Successor(job.status, job'.status) \/ job'.status = "failed"
       /\ job'.status = "completed" => held' = Len(StatusOrder)]_vars

\* C2: once the job's status is completed or failed, no step changes it.
C2_TerminalIsFinal ==
    [][job.status \in Terminal => job'.status = job.status]_vars

C4_EventuallyTerminal == []<>(job.status \in Terminal)

\* C4 witness: the job went through every stage and is completed.
C4_Witness == job.status = "completed" /\ done["clip_segments"] > 0 /\ Len(clips) = MaxBatch

\* C5: with one trigger, whatever the broker delivers twice, no stage is
\* dispatched more than once, no two segments of the job have the same
\* segment_order, and no clip has more than one process_clip dispatched.
C5_EffectsAtMostOnce ==
    triggers = 1 =>
        /\ \A k \in Stages : sent[k] <= 1
        /\ \A a, b \in 1..Len(segments) : a # b => segments[a] # segments[b]
        /\ sent["process_clip"] <= Len(clips)

\* C6: error_message is set if and only if the status is failed.
C6_ErrorIffFailed == (job.err # "none") <=> (job.status = "failed")

\* C7: every iteration of the loop of clip_segments creates one pending
\* RenderOutput, for the next segment it read, and dispatches one process_clip
\* for it; the execution that sets the job to completed has done so for each of
\* the n segments it read; the RenderOutputs created and the process_clip tasks
\* dispatched are equally many.  The status of the clips plays no part.
C7_FanOut ==
    [][/\ Len(clips') = sent'["process_clip"]
       /\ Len(clips') # Len(clips) =>
            \E e \in Running :
                /\ e.kind = "clip_segments"
                /\ e.i < Len(e.segs)
                /\ clips' = Append(clips, NewClip(e.segs[e.i + 1]))
                /\ queue' = queue (+) One(Task("process_clip", Len(clips'), 0))
                /\ running' = (running (-) One(e)) (+) One([e EXCEPT !.i = e.i + 1])
       /\ done'["clip_segments"] # done["clip_segments"] =>
            \E e \in Running :
                /\ e.kind = "clip_segments"
                /\ running' = running (-) One(e)
                /\ e.i = Len(e.segs)
                /\ job'.status = "completed"
      ]_vars

\* C7 witness: the job is completed, its two RenderOutputs were dispatched, one
\* is processing and the other still pending.
C7_Witness ==
    /\ job.status = "completed"
    /\ Len(segments) = 2
    /\ Len(clips) = 2
    /\ sent["process_clip"] = 2
    /\ clips[1].status = "processing"
    /\ clips[2].status = "pending"

\* The render request of the clip c has been initiated: the rendering service
\* accepted it, or its process_clip is queued or being executed, or the
\* submission failed.
Initiated(c) ==
    \/ clips[c].rid # 0
    \/ \E t \in Queued : t.kind = "process_clip" /\ t.clip = c
    \/ \E e \in Running : e.kind = "process_clip" /\ e.clip = c
    \/ clips[c].status = "failed" /\ clips[c].err = "submit"

\* C8 as claimed: when the job is completed, every RenderOutput of the job
\* holds a render handle.
C8_CompletedHasHandles ==
    job.status = "completed" => \A c \in 1..Len(clips) : clips[c].rid # 0

\* C8 as amended: when clip_segments sets the job to completed, every segment
\* it read has a RenderOutput whose render request has been initiated; and a
\* RenderOutput keeps being initiated, whether or not the rendering service
\* accepts the request.
C8_CompletedHasInitiated ==
    [][/\ done'["clip_segments"] # done["clip_segments"] =>
            /\ job'.status = "completed"
            /\ \E e \in Running :
                /\ e.kind = "clip_segments"
                /\ running' = running (-) One(e)
                /\ \A k \in 1..Len(e.segs) :
                       \E c \in 1..Len(clips) : clips[c].seg = e.segs[k]
       /\ \A c \in 1..Len(clips') : Initiated(c)'
      ]_vars

\* C8 witness: the job is completed, the submission of one clip failed for
\* good and the other clip has no render handle yet.
C8_Witness ==
    /\ job.status = "completed"
    /\ Len(clips) = 2
    /\ clips[1].status = "failed" /\ clips[1].rid = 0
    /\ ~(\E t \in Queued : t.kind = "process_clip" /\ t.clip = 1)
    /\ ~(\E e \in Running : e.kind = "process_clip" /\ e.clip = 1)
    /\ clips[2].rid = 0

\* C9: every change of a RenderOutput's status is pending -> processing,
\* processing -> completed or processing -> failed; so a completed or failed
\* RenderOutput keeps its status.
C9_ClipTransitions ==
    [][\A c \in 1..Len(clips) :
         clips'[c].status # clips[c].status =>
             <<clips[c].status, clips'[c].status>> \in
                 {<<"pending", "processing">>, <<"processing", "completed">>,
                  <<"processing", "failed">>}]_vars

\* C10: no two RenderOutputs belong to the same segment.
C10_OneClipPerSegment ==
    \A a, b \in 1..Len(clips) : a # b => clips[a].seg # clips[b].seg

\* C10 witness: a second execution of clip_segments is about to create a
\* RenderOutput for a segment that has one.
C10_Witness ==
    \E e \in Running :
        /\ e.kind = "clip_segments"
        /\ e.i < Len(e.segs)
        /\ \E c \in 1..Len(clips) : clips[c].seg = e.segs[e.i + 1]

\* C11: a RenderOutput that is completed has its video_url set, with S3
\* configured or not and whether the copy into the store succeeded or not.
C11_CompletedHasUrl ==
    \A c \in 1..Len(clips) : clips[c].status = "completed" => clips[c].url # "none"

\* C11 witness: S3 is configured, the copy failed, and the clip is completed
\* with the URL the poll fell back to.
C11_Witness ==
    /\ configured
    /\ \E c \in 1..Len(clips) : clips[c].status = "completed" /\ clips[c].url = "service"

\* C12 as claimed: the video_url of a completed RenderOutput is in the system's
\* own store, never the rendering service's URL.
C12_OwnStoreOnly ==
    \A c \in 1..Len(clips) : clips[c].status = "completed" => clips[c].url = "own"

\* C12 as amended: a RenderOutput becomes completed only in a step in which the
\* rendering service reports its render done; its video_url is then in the
\* system's own store or the rendering service's URL, and it is in the own
\* store only if S3 is configured; without S3 it is the rendering service's URL.
C12_OwnStoreWhenCopied ==
    [][\A c \in 1..Len(clips) :
         (clips'[c].status = "completed" /\ clips'[c] # clips[c]) =>
             /\ clips[c].rid # 0
             /\ renders'[clips[c].rid] = "done"
             /\ clips'[c].url \in {"own", "service"}
             /\ clips'[c].url = "own" => configured
             /\ ~configured => clips'[c].url = "service"
      ]_vars

\* C12 witness: the render is done, the copy succeeded, and the clip is
\* completed with a URL in the own store.
C12_Witness ==
    \E c \in 1..Len(clips) :
        /\ clips[c].status = "completed"
        /\ clips[c].url = "own"
        /\ renders[clips[c].rid] = "done"

\* C13: the execution of check_render_status that has no retry left
\* (request.retries = max_retries) and finds the render neither done nor
\* failed leaves the RenderOutput failed.
C13_ExhaustionFails ==
    [][\A t \in Queued :
         (/\ t.kind = "check_render_status"
          /\ t.retries = PollMaxRetries
          /\ queue' = queue (-) One(t)
          /\ clips[t.clip].rid # 0
          /\ renders'[clips[t.clip].rid] = "rendering") =>
             clips'[t.clip].status = "failed"
      ]_vars

\* A step of process_clip or check_render_status: one of their messages leaves
\* the queue, or an execution of process_clip ends.
ClipStep ==
    \/ \E t \in Queued :
           /\ t.kind \in {"process_clip", "check_render_status"}
           /\ CopiesIn(t, queue') < CopiesIn(t, queue)
    \/ \E e \in Running :
           /\ e.kind = "process_clip"
           /\ CopiesIn(e, running') < CopiesIn(e, running)

\* C14: no step of process_clip or check_render_status changes the status or
\* the error message of the job.
C14_JobUntouchedByClips ==
    [][ClipStep => (job'.status = job.status /\ job'.err = job.err)]_vars

\* C14 witness: the job is completed without an error message while the render
\* of one of its clips failed.
C14_Witness ==
    /\ job.status = "completed"
    /\ job.err = "none"
    /\ \E c \in 1..Len(clips) : clips[c].status = "failed" /\ clips[c].err = "render"

\* C15: complete_multipart_upload makes the object durable only for the parts
\* list 1..num_parts, each part once, ascending, with its ETag.
C15_CompleteNeedsAllParts ==
    [][\A u \in 1..Len(uploads) :
         (uploads[u].state # "completed" /\ uploads'[u].state = "completed") =>
             uploads'[u].object = [i \in 1..uploads[u].num_parts |-> i]
      ]_vars

\* C16: an abort answered 200 leaves the session aborted; the key of an
\* aborted session never exists, the session stays aborted, and no complete
\* on it is answered 200.
C16_AbortIsFinal ==
    [][/\ (resp'.op = "abort" /\ resp'.code = 200) =>
            uploads'[resp'.arg].state = "aborted"
       /\ \A u \in 1..Len(uploads) :
            uploads[u].state = "aborted" =>
                /\ uploads'[u].state = "aborted"
                /\ ~file_exists(u)'
                /\ (resp'.op = "complete" /\ resp'.arg = u) => resp'.code # 200
      ]_vars

\* C16 witness: a session that had received both parts was aborted, and a
\* complete on it was refused.
C16_Witness ==
    /\ uploads # <<>>
    /\ uploads[1].state = "aborted"
    /\ Received(1) = 1..MaxParts
    /\ resp = Response("complete", 500, 1)

\* n is the ceiling of file_size / part_size.
IsCeiling(n, file_size, part_size) ==
    (n - 1) * part_size < file_size /\ file_size <= n * part_size

C18_RangesPartition ==
    LET S == client.file_size
        P == client.part_size
        N == ClientNumParts(S, P)
        R(n) == PartRange(n, S, P)
    IN (S > 0 /\ P > 0 /\ N <= MaxParts + 1) =>
           /\ IsCeiling(N, S, P)
           /\ R(1).start = 0
           /\ R(N).end = S
           /\ \A n \in 1..N :
                  /\ R(n).start < R(n).end
                  /\ n < N => (R(n).end - R(n).start = P /\ R(n).end = R(n + 1).start)
           /\ \A m, n \in 1..N : m < n => R(m).end <= R(n).start
           /\ \A u \in 1..Len(uploads) : \A q \in uploads[u].parts :
                  q.size = R(q.PartNumber).end - R(q.PartNumber).start

\* C18 witness: a file of one part size and one block more was uploaded in two
\* parts, the second of one block.
C18_Witness ==
    /\ uploads # <<>>
    /\ uploads[1].parts = {[PartNumber |-> 1, size |-> MinPartSize],
                           [PartNumber |-> 2, size |-> 1]}

\* The request is one initiate_multipart_upload has to reject.
Rejected(filename) ==
    \/ filename = ""
    \/ detect_file_type(filename) = "unknown"
    \/ client.file_size > MaxFileSize
    \/ client.part_size < MinPartSize

\* C19: an initiate request without a filename, with an unsupported file type,
\* with a file_size above 5 GiB or with a part_size below 5 MiB is answered with
\* an error and creates no session; a session is created only with a 200.
C19_InitiateRejects ==
    [][/\ (resp'.op = "initiate" /\ Rejected(resp'.arg)) =>
            resp'.code \in {400, 500, 503} /\ Len(uploads') = Len(uploads)
       /\ Len(uploads') # Len(uploads) =>
            resp' = Response("initiate", 200, uploads'[Len(uploads')].filename)
       /\ \A u \in 1..Len(uploads') : ~Rejected(uploads'[u].filename)
      ]_vars

\* C19 witness: a request with a supported file and a part size below 5 MiB was
\* answered 400 and the store has no session.
C19_Witness ==
    /\ configured
    /\ resp = Response("initiate", 400, "clip.mp4")
    /\ client.file_size <= MaxFileSize
    /\ client.part_size \in 1..(MinPartSize - 1)
    /\ uploads = <<>>

\* C20: the job is created, and process_video_job dispatched, only in a call of
\* create_job_from_s3 whose key exists in the store, answered 201; a call with a
\* key that does not exist (with S3 configured) is answered 404, creates no job
\* and dispatches nothing.
C20_JobOnlyForExistingKey ==
    [][/\ (job = NoJob /\ job' # NoJob) =>
            /\ resp'.op = "create_job" /\ resp'.code = 201
            /\ file_exists(resp'.arg)
            /\ queue' = queue (+) One(Task("process_video_job", 0, 0))
       /\ queue' # queue => (job = NoJob /\ job' = NewJob)
       /\ (/\ resp'.op = "create_job"
           /\ configured
           /\ resp'.arg # 0
           /\ ~file_exists(resp'.arg)) =>
               resp'.code = 404 /\ job' = job /\ queue' = queue
      ]_vars

\* C20 witness: the upload was aborted, create_job_from_s3 for its key was
\* answered 404 and there is no job.
C20_Witness ==
    /\ uploads # <<>>
    /\ uploads[1].state = "aborted"
    /\ resp = Response("create_job", 404, 1)
    /\ job = NoJob
    /\ queue = EmptyBag

\* The first preservation rule: the key is the one a completed clip, created at
\* or after the cutoff, was copied under.
KeyOfRecentClip(k, cutoff) ==
    \E i \in 1..Len(rows) : /\ rows[i].status = "completed"
                            /\ rows[i].created_at >= cutoff
                            /\ rows[i].video_s3_url = S3Url(k)

\* The second preservation rule: the key has a directory clips and the object
\* was last modified at or after the cutoff.
RecentUnderClips(k, cutoff) ==
    /\ \E d \in 1..(Len(k) - 1) : k[d] = "clips"
    /\ bucket[k].last_modified >= cutoff

Preserved(k, cutoff) ==
    bucket[k] # NoObject /\ (KeyOfRecentClip(k, cutoff) \/ RecentUnderClips(k, cutoff))

\* C21: a run of bulk_cleanup_cloudcube neither deletes nor lists for deletion
\* an object that a preservation rule covers at the cutoff of the run: the key
\* of a completed clip created within retention_days, or a key under a clips/
\* path last modified within retention_days.
C21_PreservedNeverDeleted ==
    [][\A k \in Keys :
           Preserved(k, cutoff_date')
               => /\ bucket'[k] = bucket[k]
                  /\ k \notin Range(result'.deleted_files)]_vars

\* A run that deleted something and kept an object under each of the two rules.
C21_Witness ==
    /\ ~result.dry_run
    /\ result.deleted_count > 0
    /\ \E k \in Keys : bucket[k] # NoObject /\ KeyOfRecentClip(k, cutoff_date)
    /\ \E k \in Keys : /\ RecentUnderClips(k, cutoff_date)
                       /\ ~KeyOfRecentClip(k, cutoff_date)
                       /\ bucket[k].last_modified = cutoff_date

\* A step of the endpoint that ran the cleanup with dry_run=true.
DryRunStep ==
    /\ now' = now
    /\ resp'.op = "cleanup" /\ resp'.code = 200
    /\ result'.dry_run
    /\ result'.retention_days = resp'.arg

Counts(r) == <<r.deleted_count, r.deleted_size, r.retained_count, r.total_files_scanned,
               r.deleted_files>>

\* C22 as stated: a dry run deletes nothing, and a dry run that follows a dry
\* run with the same retention_days, the bucket and the rows unchanged in
\* between, returns the same counts and the same deletion list.
C22_DryRunsAgree ==
    [][DryRunStep
           => /\ bucket' = bucket
              /\ (result.dry_run /\ result.retention_days = result'.retention_days)
                     => Counts(result') = Counts(result)]_vars

\* C22 amended: a dry run deletes nothing, and two such dry runs agree when
\* they also computed the same cutoff, that is when the clock did not move
\* between them.
C22_DryRunsAgreeAtSameCutoff ==
    [][DryRunStep
           => /\ bucket' = bucket
              /\ (/\ result.dry_run /\ result.retention_days = result'.retention_days
                  /\ cutoff_date' = cutoff_date)
                     => Counts(result') = Counts(result)]_vars

\* Two dry runs in a row: the second listed something and kept something.
C22_Witness ==
    /\ result.dry_run
    /\ resp.op = "cleanup" /\ resp.code = 200
    /\ result.deleted_count > 0 /\ result.retained_count > 0
    /\ \A k \in Range(result.deleted_files) : bucket[k] # NoObject

\* C23: after a run with dry_run=false every key the run counted and reported
\* as deleted is gone from the bucket, so that a following dry run cannot list
\* it.
C23_DeletedIsGone ==
    ~result.dry_run => \A k \in Range(result.deleted_files) : bucket[k] = NoObject

\* C24: once every clip of the job is completed or failed, cleanup_job_files
\* is dispatched for the job in the end.
C24_CleanupEventuallyDispatched ==
    (\A c \in 1..Len(clips) : clips[c].status \in Terminal)
        ~> (sent["cleanup_job_files"] > 0)

\* C25: the segment_order values of the job's segments are pairwise distinct
\* in every reachable state, however often analyze_transcript was executed.
C25_SegmentOrderDistinct ==
    \A a, b \in 1..Len(segments) : a # b => segments[a] # segments[b]

\* C26: the segments of a job are created as one batch: no state has a part of
\* the batch an execution of analyze_transcript is creating, and when no
\* execution of analyze_transcript has succeeded or is running, the job has no
\* segments.
C26_SegmentsAtomic ==
    /\ \A e \in Running : e.kind = "analyze_transcript" => e.i = 0
    /\ (/\ done["analyze_transcript"] = 0
        /\ ~\E e \in Running : e.kind = "analyze_transcript")
           => segments = <<>>

\* C27: a step that leaves a failed job failed leaves its error message as the
\* first failure set it.
C27_RefailIsNoOp ==
    [][job.status = "failed" /\ job'.status = "failed" => job'.err = job.err]_vars

\* C28: a step dispatches cleanup_job_files only when every segment of the job
\* has a clip and that clip is completed, and no execution of clip_segments
\* has a segment left to create a clip for.
C28_CleanupOnlyWhenAllCompleted ==
    [][sent'["cleanup_job_files"] > sent["cleanup_job_files"]
           => /\ \A s \in 1..Len(segments) :
                     \E c \in 1..Len(clips') : /\ clips'[c].seg = s
                                               /\ clips'[c].status = "completed"
              /\ ~\E e \in Running : e.kind = "clip_segments" /\ e.i < Len(e.segs)]_vars

\* The messages of the kind k for the clip c that wait in the queue.
Waiting(q, k, c) ==
    LET T == {t \in BagToSet(q) : t.kind = k /\ t.clip = c}
    IN BagCardinality([t \in T |-> CopiesIn(t, q)])

\* C29: a poll that observes a render that is neither done nor failed schedules
\* one follow-up poll, so that at most one check_render_status message per clip
\* waits at any time, and none with more than max_retries=10 retries.
C29_OnePollOutstanding ==
    \A c \in 1..Len(clips) :
        /\ Waiting(queue, "check_render_status", c) <= 1
        /\ \A t \in Queued : t.kind = "check_render_status" => t.retries <= PollMaxRetries

Ceil(a, b) == (a + b - 1) \div b

C32_SubmittedPartsSorted ==
    uploader.submitted # <<>>
        => /\ Len(uploader.submitted) = uploader.num_parts
           /\ \A i \in 1..Len(uploader.submitted) : uploader.submitted[i].PartNumber = i

\* Three parts, the threads of which finished out of order, were submitted.
C32_Witness ==
    /\ uploader.num_parts = 3
    /\ Len(uploader.submitted) = 3
    /\ uploader.uploaded_parts[1].PartNumber = 3
    /\ uploader.uploaded_parts[2].PartNumber = 1

\* The reasons for which main gives up that are failures of a step, an
\* interrupt or an unexpected error.
Failures == {"initiate_error", "part", "complete", "complete_error", "interrupt",
             "create_job_error"}

\* C33: once the store holds the session of the upload client, a run of main
\* that ends by a failed part, a failed completion, an interrupt or an
\* unexpected error has sent an abort request for the session, and no job
\* exists.
C33_FailureAborts ==
    (uploader.pc = "done" /\ uploads # <<>> /\ uploader.cause \in Failures)
        => uploader.aborts >= 1 /\ job = NoJob

\* A multipart session that transfer_to_s3 initiated is open in the store.
OpenSession == \E i \in DOMAIN tus.sessions : tus.sessions[i] = "open"

\* C34: a multipart session that transfer_to_s3 initiates does not stay open:
\* it is completed, or aborted when a part or the completion fails.
C34_TransferClosesSession == OpenSession ~> ~OpenSession

\* No PATCH handler is between its offset check and its answer.
Quiet == \A h \in 1..MaxHandlers : tus.handlers[h].pc \in {"idle", "done"}

\* C35: whenever no request of a TUS upload is in progress, the offset in the
\* info file is the number of bytes appended to the upload file and is at
\* most the declared Upload-Length.
C35_OffsetIsAppendedWithinLength ==
    (tus.created /\ tus.info # NoInfo /\ Quiet)
        => tus.info.offset = tus.appended /\ tus.info.offset <= tus.length

\* C36: once a TUS upload has been transferred to S3, no step changes the
\* object under its key and no second transfer happens.
C36_TransferredOnce ==
    [][tus.transfers >= 1
          => tus'.object = tus.object /\ tus'.transfers = tus.transfers]_vars

\* C37: of two PATCH requests of a TUS upload that carry the same
\* Upload-Offset and a body, at most one is answered 204.
C37_OneOfTwoAppends ==
    \A g, h \in 1..MaxHandlers :
        (/\ g # h
         /\ tus.handlers[g].pc = "done" /\ tus.handlers[h].pc = "done"
         /\ tus.handlers[g].offset = tus.handlers[h].offset
         /\ tus.handlers[g].data > 0 /\ tus.handlers[h].data > 0)
            => ~(tus.handlers[g].code = 204 /\ tus.handlers[h].code = 204)

\* What a TUS upload has stored.
Stored == <<tus.length, tus.file, tus.info, tus.appended, tus.object, tus.transfers,
            tus.sessions>>

\* C38: a PATCH of an existing upload, with supported headers, whose
\* Upload-Offset is not the offset of the info file is answered 409 at once,
\* and the step leaves what the upload has stored as it was.
C38_WrongOffsetConflict ==
    [][\A h \in 1..MaxHandlers :
          (/\ tus'.patches = tus.patches + 1
           /\ tus'.handlers[h] # tus.handlers[h]
           /\ tus.info # NoInfo
           /\ tus'.handlers[h].code \notin {412, 415}
           /\ tus'.handlers[h].offset # tus.info.offset)
              => /\ tus'.handlers[h].pc = "done"
                 /\ tus'.handlers[h].code = 409
                 /\ Stored' = Stored]_vars

\* A PATCH with the offset 0 was answered 409 by an upload that holds bytes.
C38_Witness ==
    \E h \in 1..MaxHandlers :
        /\ tus.handlers[h].pc = "done"
        /\ tus.handlers[h].code = 409
        /\ tus.handlers[h].offset = 0
        /\ tus.handlers[h].data > 0
        /\ tus.file > 0
        /\ tus.info.offset = tus.file

\* C40: however often create_job_from_s3 is called with the job_id, the job is
\* created at most once and process_video_job is dispatched at most once: a
\* call that finds the job changes neither the job nor the queue.
C40_JobCreatedOnce ==
    [][/\ triggers' <= 1
       /\ sent'["process_video_job"] <= 1
       /\ job # NoJob => (job' = job /\ queue' = queue /\ triggers' = triggers)]_vars

\* The job exists, and a further create_job_from_s3 for the key of the
\* completed upload was answered 500.
C40_Witness ==
    /\ job # NoJob
    /\ triggers = 1
    /\ resp.op = "create_job"
    /\ resp.code = 500
    /\ file_exists(resp.arg)

\* C39: while the job is neither completed nor failed, no cleanup, scheduled
\* or asked for through the API, deletes its media from the bucket.
C39_MediaOfRunningJobKept ==
    [][(/\ job # NoJob
        /\ job.status \notin {"completed", "failed"}
        /\ bucket[MediaKey] # NoObject)
           => bucket'[MediaKey] # NoObject]_vars

====
